---- MODULE Spec2Model ----
(***************************************************************************)
(* NL2SQL translation pipeline of app/services/translation_service.py,    *)
(* with the cache wrapper of app/utils/cache_decorator.py, the validators  *)
(* of app/services/validation_service.py and the LLM facade of             *)
(* app/core/llm_service.py.  Beside the pipeline: the HTTP client of       *)
(* app/core/http_client.py, the provider registry of                       *)
(* app/core/llm_factory.py, the framework correction as a function of its  *)
(* input, the cache key of app/utils/cache_decorator.py, the validators as *)
(* functions of their input and the rate limiter of app/dependencies.py,   *)
(* each with a specification of its own.                                   *)
(*                                                                         *)
(* Text is modelled as a sequence of tokens; the string it stands for is   *)
(* the tokens joined by single spaces.  The regular expressions of the     *)
(* code are evaluated on the tokens.                                       *)
(***************************************************************************)
EXTENDS Integers, Sequences, FiniteSets, TLC

VARIABLES
    pc,           \* position of the request inside wrapper/translate
    req,          \* keyword arguments of the current translate call
    result,       \* the result dictionary of the current call
    schema,       \* local `schema` of translate
    similar,      \* local `similar_queries` of translate
    exact,        \* local `exact_match` of translate
    calls,        \* collaborator calls of the current request, in order
    lastOut,      \* outcome the collaborator of the last step held for its call
    redis,        \* content of the result cache: key -> stored dictionary
    cacheEnabled, \* module constant CACHE_ENABLED (read once from the environment)
    escaped,      \* exception that left the wrapper, "none" if none
    nreq,         \* number of requests submitted so far
    cancelled,    \* number of the request whose task was cancelled last, 0 if none was
    http,         \* HTTPClient: the post_json call of each caller
    stats,        \* HTTPClient.stats
    max_retries,  \* HTTPClient.max_retries
    provider_instances,   \* LLMFactory._provider_instances: name -> instance, 0 if absent
    constructed,          \* provider objects constructed so far, per name and per constructor site
    initialization_lock,  \* LLMFactory._initialization_lock: the caller holding it, 0 if free
    getter,       \* LLMFactory: the get_provider call of each caller
    configured,   \* whether the configuration of a provider passes _validate_config
    probes,       \* calls of get_configured_providers so far
    fixIn,        \* argument of fix_framework_compliance
    fixOut,       \* what fix_framework_compliance did with it
    keyCalls,     \* two calls of the cached method
    keys,         \* the cache keys derived for them
    registry,     \* LLMFactory: one call of a registry operation and what it gave
    val,          \* ValidationService: one SQL text and what the validators said of it
    rate          \* rate_limit: the counters, the clock and the requests of one client

\* the variables of the HTTP client, of the registry, of the correction and of the cache key
httpVars == <<http, stats, max_retries>>
factoryVars == <<provider_instances, constructed, initialization_lock, getter, configured, probes>>
fixVars == <<fixIn, fixOut>>
keyVars == <<keyCalls, keys>>
sideVars == <<registry, val, rate>>
aux == <<httpVars, factoryVars, fixVars, keyVars, sideVars>>

\* the variables of the pipeline
pipelineVars == <<pc, req, result, schema, similar, exact, calls, lastOut, redis, cacheEnabled,
                  escaped, nreq, cancelled>>

vars == <<pipelineVars, aux>>

----------------------------------------------------------------------------
(* Bounds *)

MaxRequests == 2

----------------------------------------------------------------------------
(* Program constants *)

\* config.py: EXACT_MATCH_THRESHOLD = 0.95, in hundredths
EXACT_MATCH_THRESHOLD == 95

\* validate_user_input: len(user_query) < 3, len(user_query) > 1000
MinQueryLen == 3
MaxQueryLen == 1000

\* TranslationService.forbidden_operations, in list order
forbidden_operations == <<"insert", "update", "delete", "drop", "truncate", "alter", "create">>

----------------------------------------------------------------------------
(* Text helpers *)

None == "<None>"

\* A long filler word standing for 1001 characters of ordinary text
LongWord == "<1001 chars>"

\* len() of one word of a question
WordLen(w) == IF w = LongWord THEN 1001 ELSE Len(w)

RECURSIVE SumLen(_)
SumLen(ws) == IF ws = <<>> THEN 0 ELSE WordLen(Head(ws)) + SumLen(Tail(ws))

\* len(user_query.strip()) of a question given as words joined by single spaces
QueryLen(ws) == IF ws = <<>> THEN 0 ELSE SumLen(ws) + (Len(ws) - 1)

\* forbidden operations that are substrings of word.lower()
OpsIn(w) ==
    CASE w \in {"delete", "DELETE", "deleted"} -> {"delete"}
      [] w \in {"drop", "Drop"}                -> {"drop"}
      [] w \in {"updated", "update"}           -> {"update"}
      [] w \in {"created", "create"}           -> {"create"}
      [] w \in {"insert"}                      -> {"insert"}
      [] w \in {"truncate"}                    -> {"truncate"}
      [] w \in {"alter", "alternance"}         -> {"alter"}
      [] OTHER -> {}

\* words matching one of suspicious_patterns (<script, javascript:, data:, vbscript:, on\w+\s*=)
Suspicious(w) == w \in {"<script>", "javascript:x", "data:x", "onload="}

\* re.findall(r'\b(20\d{2})\b', text): the year tokens of a text, in order
IsYear(t) == t \in {"2023", "2024", "2025"}
Years(ts) == SelectSeq(ts, IsYear)

----------------------------------------------------------------------------
(* SQL text: tokens and the character classes the regular expressions use *)

\* tokens made of word characters only (\w+)
Words == {"SELECT", "select", "FROM", "DEPOT", "depot", "FACTS", "WHERE", "where",
          "AND", "GROUP", "ORDER", "BY", "JOIN", "ON", "WITH", "UNION", "DATE",
          "DELETE", "DROP", "TRUNCATE", "ALTER", "UPDATE", "INSERT", "CREATE",
          "EXEC", "EXECUTE", "a", "d", "f", "x", "ID", "2023", "2024", "2025",
          "P23", "P24", "P25"}

\* <word>.ID_USER, the left-hand side of a user filter
UserCol(w) == w \o ".ID_USER"
IsUserCol(t) == \E w \in Words : t = UserCol(w)

\* #NAME# marker tags
Tag(name) == "#" \o name \o "#"
TagNames == {"PERIODE"} \cup {"DEPOT_" \o w : w \in Words} \cup {"FACTS_" \o w : w \in Words}
IsTag(t) == \E n \in TagNames : t = Tag(n)

\* the leading \w+ of a token; "" when the token does not start with a word character
WordPrefix(t) ==
    IF t \in Words THEN t
    ELSE IF IsUserCol(t) THEN CHOOSE w \in Words : t = UserCol(w)
    ELSE ""

StartsWord(t) == WordPrefix(t) # ""

\* str.upper() of a word
UpperWord(w) ==
    CASE w = "select" -> "SELECT"
      [] w = "depot"  -> "DEPOT"
      [] w = "where"  -> "WHERE"
      [] w = "a" -> "A"
      [] w = "d" -> "D"
      [] w = "f" -> "F"
      [] w = "x" -> "X"
      [] OTHER -> w

\* str.upper() of one token
Upper(t) ==
    IF t \in Words THEN UpperWord(t)
    ELSE IF IsUserCol(t) THEN UserCol(UpperWord(WordPrefix(t)))
    ELSE IF t = "a.id_user" THEN "A.ID_USER"
    ELSE t

\* str.count(ch) of one token, for the characters the syntax check counts
CountIn(t, ch) ==
    CASE ch = "(" /\ t \in {"(", "COUNT(*)"} -> 1
      [] ch = ")" /\ t \in {")", "COUNT(*)"} -> 1
      [] ch = "'" /\ t = "'"                 -> 1
      [] ch = "'" /\ t = "'CDI'"             -> 2
      [] OTHER -> 0

RECURSIVE Count(_, _)
Count(s, ch) == IF s = <<>> THEN 0 ELSE CountIn(Head(s), ch) + Count(Tail(s), ch)

UpperSeq(s) == [i \in 1..Len(s) |-> Upper(s[i])]

Positions(s) == 1..Len(s)

\* a token of whitespace: at an end of the text it stands for leading or trailing whitespace
Blank == " "

\* str.strip()
RECURSIVE LStrip(_)
LStrip(s) == IF s # <<>> /\ Head(s) = Blank THEN LStrip(Tail(s)) ELSE s

RECURSIVE RStrip(_)
RStrip(s) == IF s # <<>> /\ s[Len(s)] = Blank THEN RStrip(SubSeq(s, 1, Len(s) - 1)) ELSE s

strip(s) == RStrip(LStrip(s))

----------------------------------------------------------------------------
(* ValidationService: syntax *)

\* re.search(r'\b' + keyword + r'\b') for one of basic_keywords
HasBasicKeyword(s) ==
    LET u == UpperSeq(s) IN
    \/ \E i \in Positions(s) :
          u[i] \in {"SELECT", "FROM", "WHERE", "HAVING", "JOIN", "UNION",
                    "INSERT", "UPDATE", "DELETE", "CREATE", "ALTER", "DROP", "TRUNCATE"}
    \/ \E i \in 1..(Len(s) - 1) : u[i] \in {"GROUP", "ORDER"} /\ u[i + 1] = "BY"

valid_first_words == {"SELECT", "INSERT", "UPDATE", "DELETE", "CREATE", "ALTER", "DROP",
                      "TRUNCATE", "WITH", "EXPLAIN", "DESCRIBE", "SHOW"}

\* validate_sql_syntax: [raise |-> TRUE] for an empty string, else (is_valid, message)
validate_sql_syntax(s) ==
    IF s = <<>> THEN [raise |-> TRUE, valid |-> FALSE, msg |-> "Validation echouee: sql_query doit etre une chaine non vide"]
    ELSE IF ~HasBasicKeyword(s)
        THEN [raise |-> FALSE, valid |-> FALSE, msg |-> "La requete ne contient aucun mot-cle SQL standard"]
    ELSE IF Count(s, "(") # Count(s, ")")
        THEN [raise |-> FALSE, valid |-> FALSE, msg |-> "Les parentheses ne sont pas equilibrees"]
    ELSE IF Count(s, "'") % 2 # 0
        THEN [raise |-> FALSE, valid |-> FALSE, msg |-> "Les guillemets simples (') ne sont pas equilibres"]
    ELSE IF Upper(s[1]) \notin valid_first_words
        THEN [raise |-> FALSE, valid |-> FALSE, msg |-> "La requete commence par un mot qui n'est pas un mot-cle SQL standard"]
    ELSE [raise |-> FALSE, valid |-> TRUE, msg |-> None]

----------------------------------------------------------------------------
(* ValidationService: security *)

\* the statement-leading keywords of destructive_messages (r'^\s*KEYWORD\s+')
DestructiveLeading == {"DELETE", "DROP", "TRUNCATE", "ALTER", "UPDATE", "INSERT", "CREATE"}

\* _check_destructive_operations: the patterns are searched in sql_query.upper()
check_destructive_operations(s) ==
    LET u == UpperSeq(s) IN
    \/ Len(s) >= 2 /\ u[1] \in DestructiveLeading
    \/ \E i \in 1..(Len(s) - 1) : u[i] \in {"EXECUTE", "EXEC"}

\* a line break inside the text
Newline == "\n"

\* r'/\*.*\*/': a comment opened and closed on one line ('.' does not match a line break)
HasBlockCommentOnOneLine(s) ==
    \/ \E i \in Positions(s) : s[i] = "/*c*/"
    \/ \E i \in Positions(s) : \E j \in Positions(s) :
          /\ i < j
          /\ s[i] = "/*"
          /\ s[j] = "*/"
          /\ \A k \in (i + 1)..(j - 1) : s[k] # Newline

\* _check_sql_injection with no pattern for block comments (variant)
check_sql_injection_without_block_comments(s) ==
    LET u == UpperSeq(s) IN
    \/ \E i \in 1..(Len(s) - 2) :
          u[i] = ";" /\ u[i + 1] \in {"DROP", "DELETE", "UPDATE", "INSERT", "ALTER"}
    \/ \E i \in 1..(Len(s) - 1) : u[i] = "UNION" /\ u[i + 1] = "SELECT"
    \/ \E i \in Positions(s) : u[i] = "--" /\ (i = Len(s) \/ ~IsTag(s[i + 1]))

\* _check_sql_injection: one of injection_patterns matches (re.IGNORECASE);
\* r'--(?!\s*#)' is a "--" that is not followed, after optional whitespace, by "#"
check_sql_injection(s) ==
    LET u == UpperSeq(s) IN
    \/ \E i \in 1..(Len(s) - 2) :
          u[i] = ";" /\ u[i + 1] \in {"DROP", "DELETE", "UPDATE", "INSERT", "ALTER"}
    \/ \E i \in 1..(Len(s) - 1) : u[i] = "UNION" /\ u[i + 1] = "SELECT"
    \/ \E i \in Positions(s) : u[i] = "--" /\ (i = Len(s) \/ ~IsTag(s[i + 1]))
    \/ HasBlockCommentOnOneLine(s)

\* SQLValidator.check_for_sql_injection (app/utils/sql_validator.py): TRUE when a pattern of
\* suspicious_patterns matches; every "--" is one
check_for_sql_injection(s) ==
    LET u == UpperSeq(s) IN
    \/ \E i \in 1..(Len(s) - 2) :
          u[i] = ";" /\ u[i + 1] \in {"DROP", "DELETE", "UPDATE", "INSERT", "ALTER"}
    \/ \E i \in 1..(Len(s) - 1) : u[i] = "UNION" /\ u[i + 1] = "SELECT"
    \/ \E i \in Positions(s) : u[i] = "--"
    \/ HasBlockCommentOnOneLine(s)

\* validate_security without any check (variant: the security stage is skipped)
validate_security_off(s) == [raise |-> FALSE, safe |-> TRUE, msg |-> None]

\* validate_security: (is_safe, message); raises ValidationError for an empty string
validate_security(s) ==
    IF s = <<>> THEN [raise |-> TRUE, safe |-> FALSE, msg |-> "Validation echouee: sql_query doit etre une chaine non vide"]
    ELSE IF check_destructive_operations(s)
        THEN [raise |-> FALSE, safe |-> FALSE, msg |-> "Les operations destructives ne sont pas autorisees"]
    ELSE IF check_sql_injection(s)
        THEN [raise |-> FALSE, safe |-> FALSE, msg |-> "Pattern d'injection SQL detecte"]
    ELSE [raise |-> FALSE, safe |-> TRUE, msg |-> "Requete securisee"]

----------------------------------------------------------------------------
(* ValidationService: framework *)

\* framework_patterns['user_filter'] = r'\b\w+\.ID_USER\s*=\s*\?' (re.IGNORECASE)
has_user_filter(s) ==
    \E i \in 1..(Len(s) - 2) :
        /\ \E w \in Words : Upper(s[i]) = UserCol(UpperWord(w))
        /\ s[i + 1] = "="
        /\ s[i + 2] = "?"

\* positions matched by r'\b<TABLE>\s+(\w+)' (re.IGNORECASE)
TableMatches(s, table) ==
    {i \in 1..(Len(s) - 1) : Upper(s[i]) = table /\ StartsWord(s[i + 1])}

\* group(1) of the first match of r'\b<TABLE>\s+(\w+)'
FirstAlias(s, table) ==
    LET m == TableMatches(s, table)
        i == CHOOSE k \in m : \A j \in m : k <= j
    IN  WordPrefix(s[i + 1])

\* framework_patterns['depot_table'] = r'\bDEPOT\s+\w+' (re.IGNORECASE)
has_depot_table(s) == TableMatches(s, "DEPOT") # {}

\* framework_patterns['hashtags'] = r'#\w+#'
has_hashtags(s) == \E i \in Positions(s) : IsTag(s[i])

\* sql_query.upper().startswith('SELECT')
is_select_query(s) == s # <<>> /\ Upper(s[1]) = "SELECT"

\* _analyze_framework_elements: the four elements validate_framework looks at
analyze_framework_elements(s) ==
    [has_user_filter |-> has_user_filter(s),
     has_depot_table |-> has_depot_table(s),
     has_hashtags    |-> has_hashtags(s),
     is_select_query |-> is_select_query(s)]

\* validate_framework accepting statements of every type (variant)
framework_verdict_any_statement(e) ==
    IF e.has_user_filter /\ e.has_depot_table /\ e.has_hashtags
    THEN [raise |-> FALSE, compliant |-> TRUE, msg |-> "Requete conforme au framework obligatoire"]
    ELSE [raise |-> FALSE, compliant |-> FALSE, msg |-> "Elements manquants"]

\* validate_framework, lines 262-282: the verdict on the analysed elements
framework_verdict(e) ==
    IF e.has_user_filter /\ e.has_depot_table /\ e.has_hashtags /\ e.is_select_query
    THEN [raise |-> FALSE, compliant |-> TRUE, msg |-> "Requete conforme au framework obligatoire"]
    ELSE [raise |-> FALSE, compliant |-> FALSE, msg |-> "Elements manquants"]

\* validate_framework: (is_compliant, message); raises ValidationError for an empty string
validate_framework(s) ==
    IF s = <<>> THEN [raise |-> TRUE, compliant |-> FALSE, msg |-> "Validation echouee: sql_query doit etre une chaine non vide"]
    ELSE framework_verdict(analyze_framework_elements(strip(s)))

\* s with the tokens `ins` placed after every position of `at` (offset 1) or before it (offset 0)
RECURSIVE InsertAt(_, _, _, _, _)
InsertAt(s, at, ins, offset, i) ==
    IF i > Len(s) THEN <<>>
    ELSE (IF i \in at
             THEN (IF offset = 1 THEN <<s[i]>> \o ins ELSE ins \o <<s[i]>>)
             ELSE <<s[i]>>)
         \o InsertAt(s, at, ins, offset, i + 1)

Front(s) == SubSeq(s, 1, Len(s) - 1)

\* positions i >= 2 where the tokens are <KW> BY (r'(\s+<KW>\s+BY)', re.IGNORECASE)
ByMatches(s, kw) ==
    {i \in 2..(Len(s) - 1) : Upper(s[i]) = kw /\ Upper(s[i + 1]) = "BY"}

\* _add_user_filter, lines 380-391: the first of insert_patterns that matches places the
\* clause (re.sub replaces every match, the end-of-text pattern matching twice after ";")
insert_where_clause(s, clause) ==
    IF ByMatches(s, "GROUP") # {} THEN InsertAt(s, ByMatches(s, "GROUP"), clause, 0, 1)
    ELSE IF ByMatches(s, "ORDER") # {} THEN InsertAt(s, ByMatches(s, "ORDER"), clause, 0, 1)
    ELSE IF s[Len(s)] = ";" THEN Front(s) \o clause \o <<";">> \o clause
    ELSE s \o clause

\* s with every token at a position of `at` replaced by the tokens `ins`
RECURSIVE ReplaceAt(_, _, _, _)
ReplaceAt(s, at, ins, i) ==
    IF i > Len(s) THEN <<>>
    ELSE (IF i \in at THEN ins ELSE <<s[i]>>) \o ReplaceAt(s, at, ins, i + 1)

\* what the replacement template f'\\1{alias}.ID_USER = ? AND ' of line 376 makes of
\* '\1' and an alias 202x: the escape \120 (the letter P) and the rest of the alias
OctalAlias(alias) ==
    CASE alias = "2023" -> "P23"
      [] alias = "2024" -> "P24"
      [] alias = "2025" -> "P25"

\* _add_user_filter, lines 372-391: the filter goes after every WHERE, or in a new clause.
\* With an alias 202x the template of line 376 no longer refers to the matched WHERE, which
\* is replaced.
insert_user_filter(s, alias) ==
    IF \E i \in 2..(Len(s) - 1) : Upper(s[i]) = "WHERE"
    THEN IF IsYear(alias)
         THEN ReplaceAt(s, {i \in 1..(Len(s) - 1) : Upper(s[i]) = "WHERE"},
                        <<UserCol(OctalAlias(alias)), "=", "?", "AND">>, 1)
         ELSE InsertAt(s, {i \in 1..(Len(s) - 1) : Upper(s[i]) = "WHERE"},
                       <<UserCol(alias), "=", "?", "AND">>, 1, 1)
    ELSE insert_where_clause(s, <<"WHERE", UserCol(alias), "=", "?">>)

\* _add_user_filter: [raise, sql]
add_user_filter(s) ==
    IF TableMatches(s, "DEPOT") = {}
    THEN [raise |-> "FrameworkError", sql |-> s]
    ELSE [raise |-> "none", sql |-> insert_user_filter(s, FirstAlias(s, "DEPOT"))]

\* r'\bPERIODE\b|\bDATE\b|\bMOIS\b|\bANNEE\b' (re.IGNORECASE)
HasPeriodWord(s) == \E i \in Positions(s) : Upper(s[i]) \in {"PERIODE", "DATE", "MOIS", "ANNEE"}

\* _add_hashtags, lines 411-420: the tags go at the end, before a closing ";"
append_hashtags(s, hashtags) ==
    IF hashtags = <<>> THEN [raise |-> "FrameworkError", sql |-> s]
    ELSE [raise |-> "none",
          sql |-> IF s[Len(s)] = ";" THEN Front(s) \o hashtags \o <<";">> ELSE s \o hashtags]

\* _add_hashtags without the tag of the DEPOT alias (variant)
add_hashtags_without_depot(s) ==
    append_hashtags(s,
           (IF TableMatches(s, "FACTS") # {} THEN <<Tag("FACTS_" \o FirstAlias(s, "FACTS"))>> ELSE <<>>)
        \o (IF HasPeriodWord(s) THEN <<Tag("PERIODE")>> ELSE <<>>))

\* _add_hashtags: [raise, sql]
add_hashtags(s) ==
    append_hashtags(s,
           (IF TableMatches(s, "DEPOT") # {} THEN <<Tag("DEPOT_" \o FirstAlias(s, "DEPOT"))>> ELSE <<>>)
        \o (IF TableMatches(s, "FACTS") # {} THEN <<Tag("FACTS_" \o FirstAlias(s, "FACTS"))>> ELSE <<>>)
        \o (IF HasPeriodWord(s) THEN <<Tag("PERIODE")>> ELSE <<>>))

\* fix_framework_compliance returning the text without validating it again (variant)
fix_verify_unchecked(s, r2) ==
    IF r2.raise # "none" THEN [raise |-> "FrameworkError", sql |-> s]
    ELSE r2

\* fix_framework_compliance, lines 350-353: the corrected text must pass validate_framework
fix_verify(s, r2) ==
    IF r2.raise # "none" THEN [raise |-> "FrameworkError", sql |-> s]
    ELSE IF ~validate_framework(r2.sql).compliant THEN [raise |-> "FrameworkError", sql |-> s]
    ELSE r2

\* fix_framework_compliance adding hashtags whether or not there are some (variant)
fix_hashtags_always(s, r1) ==
    IF r1.raise # "none" THEN [raise |-> "FrameworkError", sql |-> s]
    ELSE fix_verify(s, add_hashtags(r1.sql))

\* fix_framework_compliance, lines 346-348: hashtags are added when there are none
fix_hashtags(s, r1) ==
    IF r1.raise # "none" THEN [raise |-> "FrameworkError", sql |-> s]
    ELSE IF ~has_hashtags(r1.sql) THEN fix_verify(s, add_hashtags(r1.sql))
    ELSE fix_verify(s, r1)

\* fix_framework_compliance: [raise, sql]
fix_framework_compliance(s) ==
    IF s = <<>> THEN [raise |-> "ValidationError", sql |-> s]
    ELSE IF ~has_user_filter(strip(s)) THEN fix_hashtags(s, add_user_filter(strip(s)))
    ELSE fix_hashtags(s, [raise |-> "none", sql |-> strip(s)])

----------------------------------------------------------------------------
(* LLMService (app/core/llm_service.py) *)

\* outcomes of the HTTP request of LLMService._generate_<provider>:
\* a response text, or the exception it raises
ProviderErrors == {"ClientError", "RuntimeError401", "RuntimeError429"}

\* the exception classes of app/core/exceptions.py derived from LLMError
LLMErrorKinds == {"LLMError", "LLMNetworkError", "LLMAuthError", "LLMQuotaError", "LLMConfigError"}

\* the signatures if every method also declared the `context` keyword (variant)
LLMService_Params_with_context(method) ==
    CASE method = "check_relevance" -> {"user_query", "provider", "model"}
      [] method = "generate_sql" ->
            {"user_query", "schema", "similar_queries", "provider", "model", "temperature", "context"}
      [] method = "validate_sql_semantically" ->
            {"sql_query", "original_request", "schema", "provider", "model", "context"}
      [] method = "explain_sql" -> {"sql_query", "original_request", "provider", "model", "context"}

\* parameter names of the static methods of LLMService
LLMService_Params(method) ==
    CASE method = "check_relevance" -> {"user_query", "provider", "model"}
      [] method = "generate_sql" ->
            {"user_query", "schema", "similar_queries", "provider", "model", "temperature"}
      [] method = "validate_sql_semantically" ->
            {"sql_query", "original_request", "schema", "provider", "model"}
      [] method = "explain_sql" -> {"sql_query", "original_request", "provider", "model"}

\* binding of a call: a keyword the method does not declare raises TypeError before the body runs
Binds(method, kwargs) == kwargs \subseteq LLMService_Params(method)

\* check_relevance answering False when the provider request fails (variant)
LLMService_check_relevance_strict(kwargs, out) ==
    IF ~Binds("check_relevance", kwargs) THEN [raise |-> "TypeError", val |-> FALSE, net |-> FALSE]
    ELSE IF out.err # "none" THEN [raise |-> "none", val |-> FALSE, net |-> TRUE]
    ELSE [raise |-> "none", val |-> (out.resp = <<"OUI">>), net |-> TRUE]

\* LLMService.check_relevance: "OUI" in response.upper(); True on any exception
LLMService_check_relevance(kwargs, out) ==
    IF ~Binds("check_relevance", kwargs) THEN [raise |-> "TypeError", val |-> FALSE, net |-> FALSE]
    ELSE IF out.err # "none" THEN [raise |-> "none", val |-> TRUE, net |-> TRUE]
    ELSE [raise |-> "none", val |-> (out.resp = <<"OUI">>), net |-> TRUE]

\* LLMService.generate_sql: the cleaned response; exceptions are logged and re-raised
LLMService_generate_sql(kwargs, out) ==
    IF ~Binds("generate_sql", kwargs) THEN [raise |-> "TypeError", val |-> <<>>, net |-> FALSE]
    ELSE IF out.err # "none" THEN [raise |-> out.err, val |-> <<>>, net |-> TRUE]
    ELSE [raise |-> "none", val |-> out.resp, net |-> TRUE]

\* LLMService.validate_sql_semantically: (valid, message); (False, ...) on any exception
LLMService_validate_sql_semantically(kwargs, out) ==
    IF ~Binds("validate_sql_semantically", kwargs)
        THEN [raise |-> "TypeError", val |-> FALSE, msg |-> None, net |-> FALSE]
    ELSE IF out.err # "none"
        THEN [raise |-> "none", val |-> FALSE, msg |-> "Impossible de valider la requete", net |-> TRUE]
    ELSE IF out.resp = <<"HORS", "SUJET">>
        THEN [raise |-> "none", val |-> FALSE, msg |-> "Cette demande ne concerne pas une requete SQL sur cette base de donnees.", net |-> TRUE]
    ELSE IF out.resp = <<"OUI">>
        THEN [raise |-> "none", val |-> TRUE, msg |-> "La requete SQL correspond bien a votre demande.", net |-> TRUE]
    ELSE IF out.resp = <<"NON">>
        THEN [raise |-> "none", val |-> FALSE, msg |-> "La requete SQL pourrait ne pas correspondre parfaitement a votre demande.", net |-> TRUE]
    ELSE [raise |-> "none", val |-> TRUE, msg |-> "La requete SQL semble correspondre a votre demande.", net |-> TRUE]

\* LLMService.explain_sql: the response; a fixed sentence on any exception
LLMService_explain_sql(kwargs, out) ==
    IF ~Binds("explain_sql", kwargs) THEN [raise |-> "TypeError", val |-> None, net |-> FALSE]
    ELSE IF out.err # "none"
        THEN [raise |-> "none", val |-> "Impossible d'obtenir une explication pour cette requete.", net |-> TRUE]
    ELSE [raise |-> "none", val |-> "explanation text", net |-> TRUE]

----------------------------------------------------------------------------
(* ValidationService: semantic and complete validation *)

\* validate_semantics answering "not valid" when the call to the LLM service fails (variant)
validate_semantics_strict(sql, original_request, out) ==
    IF sql = <<>> \/ original_request = <<>>
    THEN [raise |-> "ValidationError", val |-> FALSE, msg |-> None, net |-> FALSE]
    ELSE
      LET r == LLMService_validate_sql_semantically(
                   {"sql_query", "original_request", "schema", "provider", "model", "context"}, out)
      IN  IF r.raise # "none"
          THEN [raise |-> "none", val |-> FALSE,
                msg |-> "Validation semantique impossible", net |-> r.net]
          ELSE r

\* validate_semantics: (is_valid, message); the call passes context=validation_context
validate_semantics(sql, original_request, out) ==
    IF sql = <<>> \/ original_request = <<>>
    THEN [raise |-> "ValidationError", val |-> FALSE, msg |-> None, net |-> FALSE]
    ELSE
      LET r == LLMService_validate_sql_semantically(
                   {"sql_query", "original_request", "schema", "provider", "model", "context"}, out)
      IN  IF r.raise # "none"
          THEN [raise |-> "none", val |-> TRUE,
                msg |-> "Validation semantique ignoree due a une erreur LLM", net |-> r.net]
          ELSE r

\* validate_complete, lines 503-511: the result dictionary (details reduced to the entries
\* that are read), with a record of the checks that ran
validation_result(sql) ==
    [final_query |-> sql, valid |-> FALSE, message |-> "",
     has_framework |-> FALSE, framework_compliant |-> FALSE,
     auto_fix_applied |-> FALSE, fixes |-> 0,
     security_checked |-> FALSE, semantic |-> "not_run", net |-> FALSE]

\* validate_complete, lines 566-588: the verdict of the semantic validation
semantic_verdict(checked, sem) ==
    IF sem.raise # "none"
        THEN [checked EXCEPT !.message = "Erreur lors de la validation: " \o sem.raise,
                             !.semantic = "raised"]
    ELSE IF ~sem.val
        THEN [checked EXCEPT !.message = "Erreur semantique: " \o sem.msg,
                             !.semantic = "invalid", !.net = sem.net]
    ELSE [checked EXCEPT !.valid = TRUE, !.message = "Validation complete reussie",
                         !.semantic = "valid", !.net = sem.net]

\* validate_complete, lines 561-583: the framework verdict on the final text, then the
\* semantic validation when original_request and schema are given
framework_then_semantics(checked, fw, original_request, with_request, out) ==
    IF ~fw.compliant
        THEN [checked EXCEPT !.message = "Erreur de framework: " \o fw.msg,
                             !.framework_compliant = FALSE]
    ELSE IF ~with_request
        THEN [checked EXCEPT !.valid = TRUE, !.message = "Validation complete reussie"]
    ELSE semantic_verdict(checked, validate_semantics(checked.final_query, original_request, out))

\* validate_complete accepting the text when its correction fails (variant)
auto_fix_then_validate_lenient(base, fix, original_request, with_request, out) ==
    IF fix.raise # "none"
    THEN [base EXCEPT !.valid = TRUE, !.message = "Validation complete reussie",
                      !.security_checked = TRUE, !.has_framework = TRUE, !.fixes = 1]
    ELSE framework_then_semantics(
             [base EXCEPT !.final_query = fix.sql, !.security_checked = TRUE,
                          !.has_framework = TRUE, !.framework_compliant = TRUE,
                          !.auto_fix_applied = TRUE, !.fixes = 1],
             validate_framework(fix.sql), original_request, with_request, out)

\* validate_complete, lines 545-559: one automatic correction, validated again
auto_fix_then_validate(base, fix, original_request, with_request, out) ==
    IF fix.raise # "none"
    THEN [base EXCEPT !.message = "Erreur de framework (correction echouee)",
                      !.security_checked = TRUE, !.has_framework = TRUE, !.fixes = 1]
    ELSE framework_then_semantics(
             [base EXCEPT !.final_query = fix.sql, !.security_checked = TRUE,
                          !.has_framework = TRUE, !.framework_compliant = TRUE,
                          !.auto_fix_applied = TRUE, !.fixes = 1],
             validate_framework(fix.sql), original_request, with_request, out)

\* validate_complete, lines 513-559: syntax, security, framework
checks_in_order(base, sql, syn, sec, fw, original_request, with_request, auto_fix, out) ==
    IF syn.raise THEN [base EXCEPT !.message = "Erreur lors de la validation: " \o syn.msg]
    ELSE IF ~syn.valid THEN [base EXCEPT !.message = "Erreur de syntaxe: " \o syn.msg]
    ELSE IF ~sec.safe
        THEN [base EXCEPT !.message = "Erreur de securite: " \o sec.msg, !.security_checked = TRUE]
    ELSE IF ~fw.compliant /\ auto_fix
        THEN auto_fix_then_validate(base, fix_framework_compliance(sql),
                                    original_request, with_request, out)
    ELSE framework_then_semantics(
             [base EXCEPT !.security_checked = TRUE, !.has_framework = TRUE,
                          !.framework_compliant = fw.compliant],
             fw, original_request, with_request, out)

\* validate_complete.  with_request is TRUE when original_request and schema are passed
\* and non-empty.
validate_complete(sql, original_request, with_request, auto_fix, out) ==
    checks_in_order(validation_result(sql), sql, validate_sql_syntax(sql), validate_security(sql),
                    validate_framework(sql), original_request, with_request, auto_fix, out)

\* the checks of validate_complete that can fail with an exception of their own
InternalChecks == {"syntax", "security", "framework"}

\* validate_complete calls the check on this text: syntax always, security after a valid
\* syntax, framework after a safe security verdict (lines 513-541)
check_reached(sql, check) ==
    CASE check = "syntax" -> TRUE
      [] check = "security" -> ~validate_sql_syntax(sql).raise /\ validate_sql_syntax(sql).valid
      [] check = "framework" ->
            /\ ~validate_sql_syntax(sql).raise
            /\ validate_sql_syntax(sql).valid
            /\ validate_security(sql).safe
      [] OTHER -> FALSE

\* an except clause of validate_complete that accepts the text, as the one of
\* _perform_complete_validation does (variant)
validation_error_ignored(base, check) ==
    [base EXCEPT !.valid = TRUE,
                 !.message = "Validation ignoree due a une erreur: " \o check,
                 !.security_checked = (check = "framework")]

\* validate_complete, lines 585-588: an exception of a check leaves "valid" False
validation_error(base, check) ==
    [base EXCEPT !.message = "Erreur lors de la validation: " \o check,
                 !.security_checked = (check = "framework")]

\* validate_complete when the check named `check` ("none" for no check) raises an exception
\* instead of giving its verdict
validate_complete_raising(sql, check, original_request, with_request, auto_fix, out) ==
    IF check_reached(sql, check)
    THEN validation_error(validation_result(sql), check)
    ELSE validate_complete(sql, original_request, with_request, auto_fix, out)

----------------------------------------------------------------------------
(* Inputs of the pipeline *)

\* questions (words joined by single spaces)
QuerySamples ==
    { <<"Liste", "des", "CDI">>,
      <<"Liste", "des", "CDI", "2024">>,
      <<"delete", "les", "CDI">>,
      <<"<script>", "Drop">>,
      <<"ab">>,
      <<>>,
      <<LongWord>> }

\* SQL texts a retrieval hit or a generation can carry
SqlSamples ==
    { <<"SELECT", "*", "FROM", "DEPOT", "a", "WHERE", "a.ID_USER", "=", "?", "#DEPOT_a#">>,
      <<"SELECT", "*", "FROM", "DEPOT", "a", "WHERE", "x", "=", "2023", "#DEPOT_a#">>,
      <<"DELETE", "FROM", "DEPOT", "a">>,
      <<"SELECT", "*", "FROM", "FACTS", "f">>,
      <<"SELECT", "*", "FROM", "DEPOT", "a", ";", "DROP", "x", "a">>,
      <<"DROP">>,
      <<"SELECT", "*", "FROM", "DEPOT", "a", "WHERE", "x", "=", "2024", "AND", "x", "=", "2023">> }

\* similarity scores of the top hit, in hundredths
Scores == {95, 97}

\* responses and failures of one provider request
Outcome(err, resp) == [err |-> err, resp |-> resp]
Failures == {Outcome(e, <<>>) : e \in ProviderErrors}
RelevanceOutcomes == {Outcome("none", <<"OUI">>), Outcome("none", <<"NON">>)} \cup Failures
GenerationOutcomes ==
    {Outcome("none", sq) : sq \in SqlSamples \cup {<<"IMPOSSIBLE">>, <<"READONLY_VIOLATION">>}}
    \cup Failures
SemanticOutcomes ==
    {Outcome("none", r) : r \in {<<"OUI">>, <<"NON">>, <<"HORS", "SUJET">>, <<"x">>}} \cup Failures
ExplainOutcomes == {Outcome("none", <<"x">>)} \cup Failures

\* what a step remembers of the outcome the provider holds for its request
OutName(out) ==
    IF out.err # "none" THEN out.err
    ELSE IF out.resp = <<"OUI">> THEN "OUI"
    ELSE IF out.resp = <<"NON">> THEN "NON"
    ELSE IF out.resp = <<"IMPOSSIBLE">> THEN "IMPOSSIBLE"
    ELSE IF out.resp = <<"READONLY_VIOLATION">> THEN "READONLY_VIOLATION"
    ELSE "response"

----------------------------------------------------------------------------
(* The result dictionary *)

NoSql == [some |-> FALSE, toks |-> <<>>]
Sql(toks) == [some |-> TRUE, toks |-> toks]

\* truth value of result["sql"]
Truthy(sql) == sql.some /\ sql.toks # <<>>

\* _init_translation_result
init_translation_result(user_query) ==
    [query |-> user_query, sql |-> NoSql, valid |-> "None", validation_message |-> None,
     explanation |-> None, is_exact_match |-> FALSE, status |-> "processing",
     processing_time |-> None, from_cache |-> FALSE, framework_compliant |-> FALSE]

\* an except clause that names LLMError only (variant)
OuterExceptCatches_llm_only(exc) == exc \in LLMErrorKinds

\* the except clause of translate: `except Exception` catches every exception a stage raises;
\* asyncio.CancelledError is a BaseException and passes it
OuterExceptCatches(exc) == exc # "CancelledError"

\* translate, lines 175-178
OuterExcept(r, exc) ==
    [r EXCEPT !.status = "error", !.validation_message = "Erreur interne: " \o exc]

\* one entry of the call log: the operation, and whether a network request was sent
Call(op, net) == [op |-> op, net |-> net]

----------------------------------------------------------------------------
(* State *)

Idle == [user_query |-> <<>>, validate |-> FALSE, explain |-> FALSE,
         store_result |-> FALSE, use_cache |-> FALSE]

\* HTTPClient: the tasks that call post_json on the one shared client
HttpCallers == {1, 2}

\* what a task has met last: nothing yet, a timeout, a connection error, an unreadable
\* response, or a response with its status and the shape of its body
NoResponse == [kind |-> "none", status |-> 0, body |-> "none"]

\* a task that has not called post_json yet
IdleCall ==
    [pc |-> "idle", retry_on_failure |-> TRUE, attempt |-> 0, sent |-> 0, waits |-> <<>>,
     last |-> NoResponse, raised |-> "none", status_code |-> 0]

\* HTTPClient.__init__: the counters (the response time is left out)
ZeroStats == [total_requests |-> 0, successful_requests |-> 0, failed_requests |-> 0]

\* HTTPClient.__init__: the default of max_retries
DefaultMaxRetries == 3

\* an HTTP client nobody calls (HTTPClient() in LLMFactory.__init__)
HttpParked ==
    /\ http = [c \in HttpCallers |-> IdleCall]
    /\ stats = ZeroStats
    /\ max_retries = DefaultMaxRetries

\* LLMFactory._PROVIDER_CLASSES
PROVIDER_CLASSES == {"openai", "anthropic", "google"}

\* LLMFactory: the tasks that call get_provider
FactoryCallers == {1, 2, 3}

\* a task that has not called get_provider yet
IdleGetter == [pc |-> "idle", name |-> "none", got |-> 0, raised |-> "none", second |-> FALSE]

\* LLMFactory.__init__: no instance, the lock free
FactoryFresh ==
    /\ provider_instances = [n \in PROVIDER_CLASSES |-> 0]
    /\ constructed = [n \in PROVIDER_CLASSES |-> [cached |-> 0, probe |-> 0]]
    /\ initialization_lock = 0
    /\ getter = [c \in FactoryCallers |-> IdleGetter]
    /\ probes = 0

\* a registry nobody calls
FactoryParked == FactoryFresh /\ configured = [n \in PROVIDER_CLASSES |-> TRUE]

\* fix_framework_compliance not called yet
PendingFix == [raise |-> "pending", sql |-> <<>>]

FixParked == fixIn = <<>> /\ fixOut = PendingFix

KeyParked == keyCalls = <<>> /\ keys = <<>>

\* no registry operation called, no text handed to the validators, no request rate-limited
SideParked == registry = <<>> /\ val = <<>> /\ rate = <<>>

\* a pipeline nobody calls
PipelineParked ==
    /\ pc = "idle"
    /\ req = Idle
    /\ result = init_translation_result(<<>>)
    /\ schema = None
    /\ similar = <<>>
    /\ exact = NoSql
    /\ calls = <<>>
    /\ lastOut = None
    /\ redis = {}
    /\ cacheEnabled = FALSE
    /\ escaped = "none"
    /\ nreq = 0
    /\ cancelled = 0

Init ==
    /\ pc = "idle"
    /\ req = Idle
    /\ result = init_translation_result(<<>>)
    /\ schema = None
    /\ similar = <<>>
    /\ exact = NoSql
    /\ calls = <<>>
    /\ lastOut = None
    /\ redis = {}
    /\ cacheEnabled \in BOOLEAN
    /\ escaped = "none"
    /\ nreq = 0
    /\ cancelled = 0
    /\ HttpParked
    /\ FactoryParked
    /\ FixParked
    /\ KeyParked
    /\ SideParked

\* a caller invokes translate(user_query=..., validate=..., explain=..., store_result=..., use_cache=...)
Submit ==
    /\ pc \in {"idle", "returned", "raised"}
    /\ nreq < MaxRequests
    /\ \E q \in QuerySamples, v \in BOOLEAN, e \in BOOLEAN, st \in BOOLEAN, uc \in BOOLEAN :
          req' = [user_query |-> q, validate |-> v, explain |-> e,
                  store_result |-> st, use_cache |-> uc]
    /\ pc' = "wrapper"
    /\ result' = init_translation_result(<<>>)
    /\ schema' = None
    /\ similar' = <<>>
    /\ exact' = NoSql
    /\ calls' = <<>>
    /\ lastOut' = None
    /\ escaped' = "none"
    /\ nreq' = nreq + 1
    /\ UNCHANGED <<redis, cacheEnabled, cancelled, aux>>

----------------------------------------------------------------------------
(* cache_service_method: lookup *)

\* the keyword arguments that enter the key (lines 125-128)
filtered_kwargs(kwargs) ==
    [k \in DOMAIN kwargs \ {"store_result", "use_cache"} |-> kwargs[k]]

\* an argument value json.dumps(..., sort_keys=True, default=str) cannot render: a dict whose
\* keys are of different types (sorting them raises TypeError)
MixedKeys == "dict with keys of different types"

\* json.dumps of key_data succeeds (line 139)
Serialisable(kwargs) == ~("options" \in DOMAIN kwargs /\ kwargs["options"] = MixedKeys)

\* _generate_service_cache_key: the md5 of the JSON text of the positional arguments after self
\* and of the filtered keyword arguments (md5 and the JSON text taken as injective on these
\* values; class and method name are the same for all calls of one method); when building the
\* text raises, the key is made of the method name and of the clock's second (lines 148-151)
generate_service_cache_key(args, kwargs, now) ==
    IF Serialisable(kwargs)
    THEN [hash |-> <<args, filtered_kwargs(kwargs)>>, time |-> 0]
    ELSE [hash |-> <<>>, time |-> now]

\* the entry stored under key, <<>> when there is none
Lookup(store, key) ==
    LET hits == {e \in store : e.key = key}
    IN  IF hits = {} THEN <<>> ELSE <<(CHOOSE e \in hits : TRUE).value>>

\* outcomes of reaching Redis: a client, no client (get_redis_client returns None),
\* a failing command, CacheError raised by get_redis_client (production mode)
RedisOutcomes == {"ok", "no_client", "command_error", "CacheError"}

\* _get_from_cache that answers from the store whatever happened to the client (variant)
get_from_cache_despite_failure(store, key, red) == Lookup(store, key)

\* _get_from_cache: None without a client and on every exception of the command;
\* the CacheError of get_redis_client is caught by the wrapper (line 59)
get_from_cache(store, key, red) ==
    IF red = "ok" THEN Lookup(store, key) ELSE <<>>

\* wrapper, lines 39-64: serve from the cache or start translate
WrapperLookup ==
    /\ pc = "wrapper"
    /\ IF ~cacheEnabled \/ ~req.use_cache
       THEN /\ pc' = "input"
            /\ result' = init_translation_result(req.user_query)
            /\ calls' = calls
            /\ lastOut' = None
       ELSE \E red \in RedisOutcomes :
              LET cached == get_from_cache(redis, generate_service_cache_key(<<>>, req, 0), red) IN
              /\ calls' = Append(calls, Call("cache_get", TRUE))
              /\ lastOut' = red
              /\ IF cached # <<>>
                 THEN /\ result' = [cached[1] EXCEPT !.from_cache = TRUE]
                      /\ pc' = "returned"
                 ELSE /\ result' = init_translation_result(req.user_query)
                      /\ pc' = "input"
    /\ UNCHANGED <<req, schema, similar, exact, redis, cacheEnabled, cancelled, aux, escaped, nreq>>

----------------------------------------------------------------------------
(* translate: input validation and relevance *)

\* ValidationService.validate_user_input: (is_valid, message)
validate_user_input(q) ==
    IF q = <<>> THEN [valid |-> FALSE, msg |-> "La requete doit etre une chaine non vide"]
    ELSE IF QueryLen(q) < MinQueryLen
        THEN [valid |-> FALSE, msg |-> "La requete doit contenir au moins 3 caracteres"]
    ELSE IF QueryLen(q) > MaxQueryLen
        THEN [valid |-> FALSE, msg |-> "La requete ne peut pas depasser 1000 caracteres"]
    ELSE IF \E i \in 1..Len(q) : Suspicious(q[i])
        THEN [valid |-> FALSE, msg |-> "La requete contient des caracteres suspects"]
    ELSE [valid |-> TRUE, msg |-> "Entree utilisateur valide"]

\* the forbidden operations found in user_query.lower()
OpsInQuery(q) == UNION {OpsIn(q[i]) : i \in 1..Len(q)}

\* the first op of forbidden_operations with `op in user_query.lower()`
FirstForbidden(q) ==
    LET idx == {i \in 1..Len(forbidden_operations) : forbidden_operations[i] \in OpsInQuery(q)}
    IN  forbidden_operations[CHOOSE i \in idx : \A j \in idx : i <= j]

ForbiddenMessage(op) ==
    "Operation '" \o op \o "' non autorisee. Seules les requetes de consultation (SELECT) sont permises."

\* _validate_user_input without the scan for forbidden operations (variant)
validate_user_input_stage_basic_only(r) ==
    LET v == validate_user_input(r.query) IN
    IF ~v.valid THEN [r EXCEPT !.status = "error", !.validation_message = v.msg]
    ELSE r

\* _validate_user_input
validate_user_input_stage(r) ==
    LET v == validate_user_input(r.query) IN
    IF ~v.valid THEN [r EXCEPT !.status = "error", !.validation_message = v.msg]
    ELSE IF OpsInQuery(r.query) # {}
        THEN [r EXCEPT !.status = "error",
                       !.validation_message = ForbiddenMessage(FirstForbidden(r.query))]
    ELSE r

\* translate, step 1
ValidateUserInput ==
    /\ pc = "input"
    /\ result' = validate_user_input_stage(result)
    /\ pc' = IF result'.status = "error" THEN "finalize" ELSE "relevance"
    /\ lastOut' = None
    /\ UNCHANGED <<req, schema, similar, exact, calls, redis, cacheEnabled, cancelled, aux, escaped, nreq>>

RelevanceMessage ==
    "Cette requete ne semble pas concerner les ressources humaines."

\* _check_relevance: the new result, or the exception that leaves the method
check_relevance_stage(r, c) ==
    IF c.raise = "none"
        THEN [raise |-> "none",
              res |-> IF ~c.val
                      THEN [r EXCEPT !.status = "error", !.validation_message = RelevanceMessage]
                      ELSE r]
    ELSE IF c.raise \in {"LLMAuthError", "LLMQuotaError"}
        THEN [raise |-> "none",
              res |-> [r EXCEPT !.status = "error",
                                !.validation_message = "Service LLM temporairement indisponible"]]
    ELSE IF c.raise = "LLMNetworkError" THEN [raise |-> "none", res |-> r]
    ELSE IF c.raise \in LLMErrorKinds
        THEN [raise |-> "none",
              res |-> [r EXCEPT !.status = "error", !.validation_message = "Erreur du service LLM"]]
    ELSE [raise |-> c.raise, res |-> r]

\* leaving a stage without the `if result["status"] == "error": return` that follows it (variant)
Leave_without_early_return(res, exc, next) ==
    IF exc = "none"
    THEN /\ result' = res
         /\ pc' = next
         /\ escaped' = escaped
    ELSE /\ result' = OuterExcept(res, exc)
         /\ pc' = "finalize"
         /\ escaped' = escaped

\* leaving a stage by an exception without the finally clause: the error result goes
\* straight back to the wrapper (variant)
Leave_without_finally(res, exc, next) ==
    IF exc = "none"
    THEN /\ result' = res
         /\ pc' = IF res.status = "error" /\ next \in {"relevance", "schema", "search", "exact"}
                  THEN "finalize" ELSE next
         /\ escaped' = escaped
    ELSE /\ result' = OuterExcept(res, exc)
         /\ pc' = "wrapper_exit"
         /\ escaped' = escaped

\* how a stage of translate is left: normally, or by an exception that the except clause
\* of translate turns into an error result, or that escapes; the finally clause runs next
Leave(res, exc, next) ==
    IF exc = "none"
    THEN /\ result' = res
         /\ pc' = IF res.status = "error" /\ next \in {"relevance", "schema", "search", "exact"}
                  THEN "finalize" ELSE next
         /\ escaped' = escaped
    ELSE IF OuterExceptCatches(exc)
    THEN /\ result' = OuterExcept(res, exc)
         /\ pc' = "finalize"
         /\ escaped' = escaped
    ELSE /\ result' = res
         /\ pc' = "finalize"
         /\ escaped' = exc

\* translate, step 2
CheckRelevance ==
    /\ pc = "relevance"
    /\ \E out \in RelevanceOutcomes :
          LET c == LLMService_check_relevance({"user_query", "provider", "model"}, out)
              s == check_relevance_stage(result, c)
          IN  /\ calls' = Append(calls, Call("relevance", c.net))
              /\ lastOut' = IF c.net THEN OutName(out) ELSE c.raise
              /\ Leave(s.res, s.raise, "schema")
    /\ UNCHANGED <<req, schema, similar, exact, redis, cacheEnabled, cancelled, aux, nreq>>

----------------------------------------------------------------------------
(* translate: schema and retrieval *)

\* outcomes of load_schema: the content of the file, or an exception
SchemaOutcomes == {"schema text", "FileNotFoundError", "IOError"}

\* _load_schema setting the status but no message on a failure (variant)
load_schema_stage_no_message(r, out) ==
    IF out \in {"FileNotFoundError", "IOError"}
        THEN [schema |-> None, res |-> [r EXCEPT !.status = "error"]]
    ELSE [schema |-> out, res |-> r]

\* _load_schema: the schema, or None with an error result
load_schema_stage(r, out) ==
    IF out = "FileNotFoundError"
        THEN [schema |-> None,
              res |-> [r EXCEPT !.status = "error", !.validation_message = "Fichier de schema introuvable"]]
    ELSE IF out = "IOError"
        THEN [schema |-> None,
              res |-> [r EXCEPT !.status = "error", !.validation_message = "Erreur de chargement du schema"]]
    ELSE [schema |-> out, res |-> r]

\* translate, step 3
LoadSchema ==
    /\ pc = "schema"
    /\ \E out \in SchemaOutcomes :
          LET s == load_schema_stage(result, out) IN
          /\ schema' = s.schema
          /\ calls' = Append(calls, Call("schema", FALSE))
          /\ lastOut' = out
          /\ Leave(s.res, "none", "search")
    /\ UNCHANGED <<req, similar, exact, redis, cacheEnabled, cancelled, aux, nreq>>

\* the hits find_similar_queries can return: none, or a top hit with its score and SQL
Hit(sc, sq) == <<[score |-> sc, requete |-> sq]>>
HitLists ==
    {<<>>, Hit(95, <<"SELECT", "*", "FROM", "DEPOT", "a">>)}
    \cup {Hit(sc, sq) : sc \in Scores \ {95}, sq \in SqlSamples}

\* outcomes of find_similar_queries: a list of hits, or VectorSearchError
SearchOutcomes ==
    {[err |-> "none", hits |-> h] : h \in HitLists} \cup {[err |-> "VectorSearchError", hits |-> <<>>]}

\* _perform_vector_search treating a failed search as a search without hits (variant)
perform_vector_search_stage_swallow(r, emb, found) ==
    IF emb = "EmbeddingError"
        THEN [similar |-> <<>>,
              res |-> [r EXCEPT !.status = "error",
                                !.validation_message = "Erreur du service de vectorisation"]]
    ELSE [similar |-> found.hits, res |-> r]

\* _perform_vector_search: get_embedding then find_similar_queries; both wrap every failure
\* in their own error class
perform_vector_search_stage(r, emb, found) ==
    IF emb = "EmbeddingError"
        THEN [similar |-> <<>>,
              res |-> [r EXCEPT !.status = "error",
                                !.validation_message = "Erreur du service de vectorisation"]]
    ELSE IF found.err = "VectorSearchError"
        THEN [similar |-> <<>>,
              res |-> [r EXCEPT !.status = "error",
                                !.validation_message = "Erreur du service de recherche"]]
    ELSE [similar |-> found.hits, res |-> r]

\* translate, step 4
PerformVectorSearch ==
    /\ pc = "search"
    /\ \E emb \in {"ok", "EmbeddingError"} :
       \E found \in SearchOutcomes :
          LET s == perform_vector_search_stage(result, emb, found) IN
          /\ similar' = s.similar
          /\ calls' = IF emb = "ok"
                      THEN calls \o <<Call("embedding", TRUE), Call("vector_search", TRUE)>>
                      ELSE Append(calls, Call("embedding", TRUE))
          /\ lastOut' = IF emb = "ok" THEN found.err ELSE emb
          /\ Leave(s.res, "none", "exact")
    /\ UNCHANGED <<req, schema, exact, redis, cacheEnabled, cancelled, aux, nreq>>

----------------------------------------------------------------------------
(* translate: exact match or generation *)

\* vector_search.check_exact_match: the SQL of the top hit when its score exceeds the threshold
check_exact_match(similar_queries, threshold) ==
    IF similar_queries = <<>> THEN NoSql
    ELSE IF similar_queries[1].score > threshold /\ similar_queries[1].requete # <<>>
        THEN Sql(similar_queries[1].requete)
    ELSE NoSql

\* _check_exact_match dropping every candidate that carries a year (variant)
check_exact_match_stage_any_year(similar_queries, r) ==
    LET m == check_exact_match(similar_queries, EXACT_MATCH_THRESHOLD)
    IN  IF Truthy(m) /\ Years(m.toks) # <<>> THEN NoSql ELSE m

\* _check_exact_match: the candidate is dropped when the first year of the question and the
\* first year of the candidate differ
check_exact_match_stage(similar_queries, r) ==
    LET m == check_exact_match(similar_queries, EXACT_MATCH_THRESHOLD)
        user_years == Years(r.query)
        sql_years  == Years(m.toks)
    IN  IF Truthy(m) /\ user_years # <<>> /\ sql_years # <<>> /\ user_years[1] # sql_years[1]
        THEN NoSql
        ELSE m

\* translate generating a new text whether or not there is an exact match (variant)
step_after_exact_check_always_generates(exact_match) == "generate"

\* translate, lines 151-160: `if exact_match:` step 7a, `else:` step 7b
step_after_exact_check(exact_match) ==
    IF Truthy(exact_match) THEN "handle_exact" ELSE "generate"

\* translate, steps 5 and 6
CheckExactMatch ==
    /\ pc = "exact"
    /\ exact' = check_exact_match_stage(similar, result)
    /\ pc' = step_after_exact_check(exact')
    /\ lastOut' = None
    /\ UNCHANGED <<req, result, schema, similar, calls, redis, cacheEnabled, cancelled, aux, escaped, nreq>>

\* the update that leaves result["valid"] untouched (variant)
exact_match_result_valid_unset(r, v) ==
    IF ~v.valid
    THEN [r EXCEPT !.status = "error",
                   !.validation_message = "Correspondance exacte non conforme: " \o v.message]
    ELSE [r EXCEPT !.sql = Sql(v.final_query),
                   !.validation_message = "Requete trouvee directement dans la base de connaissances et conforme au framework.",
                   !.is_exact_match = TRUE,
                   !.status = "success",
                   !.framework_compliant = TRUE]

\* _handle_exact_match, lines 394-409: the update of the result from the validation v
exact_match_result(r, v) ==
    IF ~v.valid
    THEN [r EXCEPT !.status = "error",
                   !.validation_message = "Correspondance exacte non conforme: " \o v.message]
    ELSE [r EXCEPT !.sql = Sql(v.final_query),
                   !.valid = "True",
                   !.validation_message = "Requete trouvee directement dans la base de connaissances et conforme au framework.",
                   !.is_exact_match = TRUE,
                   !.status = "success",
                   !.framework_compliant = TRUE]

\* _handle_exact_match that returns the candidate without looking at is_valid (variant)
handle_exact_match_unchecked(r, exact_match) ==
    [r EXCEPT !.sql = Sql(exact_match),
              !.valid = "True",
              !.validation_message = "Requete trouvee directement dans la base de connaissances et conforme au framework.",
              !.is_exact_match = TRUE,
              !.status = "success",
              !.framework_compliant = TRUE]

\* _handle_exact_match: validate_complete(sql_query=exact_match, auto_fix=True)
handle_exact_match_stage(r, exact_match) ==
    exact_match_result(r, validate_complete(exact_match, <<>>, FALSE, TRUE, Outcome("none", <<>>)))

\* what the step remembers of the validation of the candidate
ValidationName(v) ==
    IF ~v.valid THEN "invalid" ELSE IF v.auto_fix_applied THEN "valid_fixed" ELSE "valid"

\* the checks of validate_complete with the framework check ahead of the security check
\* (variant)
ValidationCalls_framework_first(v) ==
       <<Call("syntax", FALSE)>>
    \o (IF v.has_framework THEN <<Call("framework", FALSE)>> ELSE <<>>)
    \o (IF v.fixes = 1 THEN <<Call("auto_fix", FALSE)>> ELSE <<>>)
    \o (IF v.security_checked THEN <<Call("security", FALSE)>> ELSE <<>>)
    \o (IF v.semantic \in {"valid", "invalid"} THEN <<Call("semantic", v.net)>> ELSE <<>>)

\* the entries validate_complete adds to the call log, in the order of its numbered steps:
\* 1. syntax (line 515), 2. security (line 526), 3. framework (line 537), 4. the automatic
\* correction when it was attempted (line 547), 5. the semantic check when it was reached
\* (line 567)
ValidationCalls(v) ==
       <<Call("syntax", FALSE)>>
    \o (IF v.security_checked THEN <<Call("security", FALSE)>> ELSE <<>>)
    \o (IF v.has_framework THEN <<Call("framework", FALSE)>> ELSE <<>>)
    \o (IF v.fixes = 1 THEN <<Call("auto_fix", FALSE)>> ELSE <<>>)
    \o (IF v.semantic \in {"valid", "invalid"} THEN <<Call("semantic", v.net)>> ELSE <<>>)

\* translate, step 7a
HandleExactMatch ==
    /\ pc = "handle_exact"
    /\ calls' = Append(calls, Call("exact_validation", FALSE))
                 \o ValidationCalls(
                        validate_complete(exact.toks, <<>>, FALSE, TRUE, Outcome("none", <<>>)))
    /\ lastOut' = ValidationName(
                      validate_complete(exact.toks, <<>>, FALSE, TRUE, Outcome("none", <<>>)))
    /\ Leave(handle_exact_match_stage(result, exact.toks), "none", "validate")
    /\ UNCHANGED <<req, schema, similar, exact, redis, cacheEnabled, cancelled, aux, nreq>>

\* _generate_new_sql: the new result, or the exception that leaves the method
generate_new_sql_stage(r, g) ==
    IF g.raise = "none"
    THEN [raise |-> "none",
          res |->
            IF g.val = <<"IMPOSSIBLE">>
            THEN [r EXCEPT !.status = "error",
                           !.validation_message = "Cette demande ne semble pas concerner les ressources humaines ou est impossible a traduire en SQL avec le schema fourni."]
            ELSE IF g.val = <<"READONLY_VIOLATION">>
            THEN [r EXCEPT !.status = "error",
                           !.validation_message = "Votre demande concerne une operation d'ecriture qui n'est pas autorisee. Cette API est en lecture seule."]
            ELSE [r EXCEPT !.sql = Sql(g.val), !.status = "success"]]
    ELSE IF g.raise \in {"LLMAuthError", "LLMQuotaError"}
        THEN [raise |-> "none",
              res |-> [r EXCEPT !.status = "error",
                                !.validation_message = "Service LLM temporairement indisponible"]]
    ELSE IF g.raise = "LLMNetworkError"
        THEN [raise |-> "none",
              res |-> [r EXCEPT !.status = "error",
                                !.validation_message = "Erreur de connexion au service LLM"]]
    ELSE IF g.raise \in LLMErrorKinds
        THEN [raise |-> "none",
              res |-> [r EXCEPT !.status = "error", !.validation_message = "Erreur du service LLM"]]
    ELSE [raise |-> g.raise, res |-> r]

\* translate, step 7b: LLMService.generate_sql(user_query=, schema=, similar_queries=,
\* provider=, model=, context=)
GenerateNewSql ==
    /\ pc = "generate"
    /\ \E out \in GenerationOutcomes :
          LET g == LLMService_generate_sql(
                       {"user_query", "schema", "similar_queries", "provider", "model", "context"}, out)
              s == generate_new_sql_stage(result, g)
          IN  /\ calls' = Append(calls, Call("generation", g.net))
              /\ lastOut' = OutName(out)
              /\ Leave(s.res, s.raise, "validate")
    /\ UNCHANGED <<req, schema, similar, exact, redis, cacheEnabled, cancelled, aux, nreq>>

----------------------------------------------------------------------------
(* translate: validation, explanation, storage *)

\* _perform_complete_validation: validate_complete(sql_query, original_request=user_query,
\* schema=schema, provider=, model=, auto_fix=True) and the update of the result
perform_complete_validation_stage(r, v) ==
    LET msg == IF v.auto_fix_applied
               THEN v.message \o " (Requete corrigee automatiquement)" ELSE v.message
    IN  [r EXCEPT !.sql = Sql(v.final_query),
                  !.valid = IF v.valid THEN "True" ELSE "False",
                  !.validation_message = msg,
                  !.framework_compliant = v.has_framework /\ v.framework_compliant,
                  !.status = IF ~v.valid THEN "error" ELSE r.status]

\* translate, step 8 with the validation v in hand
CompleteValidationStep(v, out) ==
    /\ calls' = Append(calls, Call("validation", FALSE)) \o ValidationCalls(v)
    /\ lastOut' = IF v.semantic \in {"valid", "invalid"} THEN OutName(out) ELSE v.semantic
    /\ Leave(perform_complete_validation_stage(result, v), "none", "explain")

\* translate, step 8
PerformCompleteValidation ==
    /\ pc = "validate"
    /\ IF req.validate /\ Truthy(result.sql)
       THEN \E out \in SemanticOutcomes :
              CompleteValidationStep(
                  validate_complete(result.sql.toks, req.user_query,
                                    req.user_query # <<>> /\ schema # "", TRUE, out), out)
       ELSE /\ calls' = calls
            /\ lastOut' = None
            /\ Leave(result, "none", "explain")
    /\ UNCHANGED <<req, schema, similar, exact, redis, cacheEnabled, cancelled, aux, nreq>>

\* _generate_explanation turning a failed explanation into an error result (variant)
generate_explanation_stage_fatal(r, e) ==
    IF e.raise = "none" THEN [r EXCEPT !.explanation = e.val]
    ELSE [r EXCEPT !.explanation = "Explication non disponible.", !.status = "error"]

\* _generate_explanation: LLMService.explain_sql(sql_query, user_query, provider=, model=, context=)
generate_explanation_stage(r, e) ==
    IF e.raise = "none" THEN [r EXCEPT !.explanation = e.val]
    ELSE IF e.raise \in LLMErrorKinds
        THEN [r EXCEPT !.explanation = "Explication non disponible due a une erreur du service LLM."]
    ELSE [r EXCEPT !.explanation = "Explication non disponible."]

\* translate, step 9
GenerateExplanation ==
    /\ pc = "explain"
    /\ IF req.explain /\ Truthy(result.sql) /\ result.status # "error"
       THEN \E out \in ExplainOutcomes :
              LET e == LLMService_explain_sql(
                           {"sql_query", "original_request", "provider", "model", "context"}, out)
              IN  /\ calls' = Append(calls, Call("explanation", e.net))
                  /\ lastOut' = OutName(out)
                  /\ Leave(generate_explanation_stage(result, e), "none", "store")
       ELSE /\ calls' = calls
            /\ lastOut' = None
            /\ Leave(result, "none", "store")
    /\ UNCHANGED <<req, schema, similar, exact, redis, cacheEnabled, cancelled, aux, nreq>>

\* _store_result without its try/except: a failure of the embedding or of the upsert
\* leaves the method (variant)
store_result_stage_uncaught(r, emb, up) ==
    IF emb # "ok" THEN [raise |-> emb, res |-> r]
    ELSE IF up # "ok" THEN [raise |-> up, res |-> r]
    ELSE [raise |-> "none", res |-> r]

\* _store_result: get_embedding then store_query; every exception is logged and dropped,
\* and the result dictionary is not written
store_result_stage(r, emb, up) == [raise |-> "none", res |-> r]

\* translate storing every result that has a text (variant)
should_store_any_text(store_result, r) == Truthy(r.sql)

\* translate, line 172: `if store_result and result["valid"] and result["sql"]`
should_store(store_result, r) == store_result /\ r.valid = "True" /\ Truthy(r.sql)

\* translate, step 10
StoreResult ==
    /\ pc = "store"
    /\ IF should_store(req.store_result, result)
       THEN \E emb \in {"ok", "EmbeddingError"}, up \in {"ok", "VectorSearchError"} :
              /\ calls' = IF emb = "ok"
                          THEN calls \o <<Call("store_embedding", TRUE), Call("store_query", TRUE)>>
                          ELSE Append(calls, Call("store_embedding", TRUE))
              /\ lastOut' = IF emb = "ok" THEN up ELSE emb
              /\ Leave(store_result_stage(result, emb, up).res,
                       store_result_stage(result, emb, up).raise, "finalize")
       ELSE /\ calls' = calls
            /\ lastOut' = None
            /\ Leave(result, "none", "finalize")
    /\ UNCHANGED <<req, schema, similar, exact, redis, cacheEnabled, cancelled, aux, nreq>>

\* _finalize_result
finalize_result(r) ==
    LET timed == [r EXCEPT !.processing_time = "set"] IN
    IF timed.status = "processing"
    THEN [timed EXCEPT !.status = IF Truthy(timed.sql) /\ timed.valid # "False"
                                  THEN "success" ELSE "error"]
    ELSE timed

\* translate, the finally clause; then the return to the wrapper, or the exception leaving it
FinalizeResult ==
    /\ pc = "finalize"
    /\ result' = finalize_result(result)
    /\ pc' = IF escaped = "none" THEN "wrapper_exit" ELSE "raised"
    /\ calls' = Append(calls, Call("finalize", FALSE))
    /\ lastOut' = None
    /\ UNCHANGED <<req, schema, similar, exact, redis, cacheEnabled, cancelled, aux, escaped, nreq>>

----------------------------------------------------------------------------
(* cache_service_method: after translate *)

\* _store_in_cache: setex replaces the entry of the key
store_in_cache(store, key, value, red) ==
    IF red = "ok" THEN {e \in store : e.key # key} \cup {[key |-> key, value |-> value]}
    ELSE store

\* the wrapper storing the result whatever its status (variant)
cacheable_any_status(r, kwargs) == kwargs.store_result

\* wrapper, lines 72-74: result.get("status") == "success" and kwargs.get("store_result", True)
cacheable(r, kwargs) == r.status = "success" /\ kwargs.store_result

\* wrapper, lines 43-46 and 71-99
WrapperReturn ==
    /\ pc = "wrapper_exit"
    /\ result' = [result EXCEPT !.from_cache = FALSE]
    /\ IF cacheEnabled /\ req.use_cache /\ cacheable(result, req)
       THEN \E red \in RedisOutcomes :
              /\ redis' = store_in_cache(redis, generate_service_cache_key(<<>>, req, 0), result', red)
              /\ calls' = Append(calls, Call("cache_set", TRUE))
              /\ lastOut' = red
       ELSE /\ redis' = redis
            /\ calls' = calls
            /\ lastOut' = None
    /\ pc' = "returned"
    /\ UNCHANGED <<req, schema, similar, exact, cacheEnabled, cancelled, aux, escaped, nreq>>

----------------------------------------------------------------------------

Next ==
    \/ Submit
    \/ WrapperLookup
    \/ ValidateUserInput
    \/ CheckRelevance
    \/ LoadSchema
    \/ PerformVectorSearch
    \/ CheckExactMatch
    \/ HandleExactMatch
    \/ GenerateNewSql
    \/ PerformCompleteValidation
    \/ GenerateExplanation
    \/ StoreResult
    \/ FinalizeResult
    \/ WrapperReturn

Spec == Init /\ [][Next]_vars

----------------------------------------------------------------------------
(* Cancellation of the task that runs translate *)

\* what the CancelledError delivered at the await of a network call becomes for the caller
\* of that call: get_embedding (embedding.py:125-127) and find_similar_queries
\* (vector_search.py:270-272) replace it by their own error; check_relevance and store_query
\* catch Exception only and let it pass
cancelled_as(call) ==
    IF call \in {"embedding", "store_embedding"} THEN "EmbeddingError"
    ELSE IF call = "vector_search" THEN "VectorSearchError"
    ELSE "CancelledError"

\* the task is cancelled while the request of the relevance check is in flight
CancelRelevance ==
    /\ pc = "relevance"
    /\ calls' = Append(calls, Call("relevance", TRUE))
    /\ lastOut' = "CancelledError"
    /\ cancelled' = nreq
    /\ Leave(result, cancelled_as("relevance"), "schema")
    /\ UNCHANGED <<req, schema, similar, exact, redis, cacheEnabled, aux, nreq>>

\* the task is cancelled while the embedding or the vector search of step 4 is in flight
CancelVectorSearch ==
    /\ pc = "search"
    /\ \E call \in {"embedding", "vector_search"} :
          LET s == perform_vector_search_stage(
                       result,
                       IF call = "embedding" THEN cancelled_as(call) ELSE "ok",
                       [err |-> IF call = "vector_search" THEN cancelled_as(call) ELSE "none",
                        hits |-> <<>>])
          IN  /\ similar' = s.similar
              /\ calls' = IF call = "embedding"
                          THEN Append(calls, Call("embedding", TRUE))
                          ELSE calls \o <<Call("embedding", TRUE), Call("vector_search", TRUE)>>
              /\ lastOut' = "CancelledError"
              /\ Leave(s.res, "none", "exact")
    /\ cancelled' = nreq
    /\ UNCHANGED <<req, schema, exact, redis, cacheEnabled, aux, nreq>>

\* the task is cancelled while the embedding or the upsert of step 10 is in flight:
\* _store_result drops the EmbeddingError, the CancelledError of store_query passes its
\* `except Exception`
CancelStore ==
    /\ pc = "store"
    /\ req.store_result /\ result.valid = "True" /\ Truthy(result.sql)
    /\ \E call \in {"store_embedding", "store_query"} :
          /\ calls' = IF call = "store_embedding"
                      THEN Append(calls, Call("store_embedding", TRUE))
                      ELSE calls \o <<Call("store_embedding", TRUE), Call("store_query", TRUE)>>
          /\ IF cancelled_as(call) = "CancelledError"
             THEN Leave(result, "CancelledError", "finalize")
             ELSE Leave(store_result_stage(result, cancelled_as(call), "ok").res,
                        store_result_stage(result, cancelled_as(call), "ok").raise, "finalize")
    /\ lastOut' = "CancelledError"
    /\ cancelled' = nreq
    /\ UNCHANGED <<req, schema, similar, exact, redis, cacheEnabled, aux, nreq>>

\* translate with a caller that may cancel the task once while a request is in flight.
\* Generation, semantic check and explanation never have a request in flight (their calls
\* fail on the unexpected keyword `context` before one is sent).
NextCancel ==
    \/ Next
    \/ CancelRelevance
    \/ CancelVectorSearch
    \/ CancelStore

SpecCancel == Init /\ [][NextCancel]_vars

----------------------------------------------------------------------------
(* LLMFactory.get_provider (app/core/llm_factory.py) *)

MaxProbes == 1

\* the names the tasks ask for: two registered providers and one that is not
RequestedNames == {"openai", "google", "mistral"}

\* the variables of the other components, for the steps of the registry
notFactory == <<pipelineVars, httpVars, fixVars, keyVars, sideVars>>

\* get_provider without the second look at the cache (variant)
needs_construction_unchecked(instances, name) == TRUE

\* get_provider, line 95: the second look at the cache, under the lock
needs_construction(instances, name) == instances[name] = 0

\* the identity of the next provider object constructed for a name
NextInstance(name) == constructed[name].cached + constructed[name].probe + 1

\* get_provider, lines 84-92: an unknown name raises; a cached instance is returned; else
\* the task goes for the lock.  (An uncontended asyncio.Lock is taken without suspending;
\* the model lets other tasks run between the first look and the lock.)
GetProvider(c) ==
    /\ getter[c].pc = "idle"
    /\ \E name \in RequestedNames :
          getter' = [getter EXCEPT ![c] =
              IF name \notin PROVIDER_CLASSES
              THEN [@ EXCEPT !.pc = "raised", !.name = name, !.raised = "LLMConfigError"]
              ELSE IF provider_instances[name] # 0
              THEN [@ EXCEPT !.pc = "returned", !.name = name, !.got = provider_instances[name]]
              ELSE [@ EXCEPT !.pc = "acquire", !.name = name]]
    /\ UNCHANGED <<provider_instances, constructed, initialization_lock, configured, probes,
                   notFactory>>

\* get_provider, line 93: async with self._initialization_lock
AcquireLock(c) ==
    /\ getter[c].pc = "acquire"
    /\ initialization_lock = 0
    /\ initialization_lock' = c
    /\ getter' = [getter EXCEPT ![c].pc = "locked"]
    /\ UNCHANGED <<provider_instances, constructed, configured, probes, notFactory>>

\* get_provider, lines 95-107: under the lock the instance is constructed and cached unless
\* it is there; a constructor that raises (_validate_config) ends the call with
\* LLMConfigError; the lock is released and the cached instance returned
ConstructProvider(c) ==
    /\ getter[c].pc = "locked"
    /\ initialization_lock' = 0
    /\ IF ~needs_construction(provider_instances, getter[c].name)
       THEN /\ getter' = [getter EXCEPT ![c] =
                   [@ EXCEPT !.pc = "returned", !.got = provider_instances[getter[c].name],
                             !.second = TRUE]]
            /\ UNCHANGED <<provider_instances, constructed>>
       ELSE IF configured[getter[c].name]
       THEN /\ provider_instances' =
                   [provider_instances EXCEPT ![getter[c].name] = NextInstance(getter[c].name)]
            /\ constructed' = [constructed EXCEPT ![getter[c].name].cached = @ + 1]
            /\ getter' = [getter EXCEPT ![c] =
                   [@ EXCEPT !.pc = "returned", !.got = NextInstance(getter[c].name)]]
       ELSE /\ getter' = [getter EXCEPT ![c] =
                   [@ EXCEPT !.pc = "raised", !.raised = "LLMConfigError"]]
            /\ UNCHANGED <<provider_instances, constructed>>
    /\ UNCHANGED <<configured, probes, notFactory>>

\* get_configured_providers: one throw-away object of every provider whose configuration
\* is valid
GetConfiguredProviders ==
    /\ probes < MaxProbes
    /\ probes' = probes + 1
    /\ constructed' = [n \in PROVIDER_CLASSES |->
                          IF configured[n]
                          THEN [constructed[n] EXCEPT !.probe = @ + 1]
                          ELSE constructed[n]]
    /\ UNCHANGED <<provider_instances, initialization_lock, getter, configured, notFactory>>

InitFactory ==
    /\ PipelineParked
    /\ HttpParked
    /\ FixParked
    /\ KeyParked
    /\ SideParked
    /\ FactoryFresh
    /\ configured \in [PROVIDER_CLASSES -> BOOLEAN]

NextFactory ==
    \/ \E c \in FactoryCallers : GetProvider(c)
    \/ \E c \in FactoryCallers : AcquireLock(c)
    \/ \E c \in FactoryCallers : ConstructProvider(c)
    \/ GetConfiguredProviders

SpecFactory == InitFactory /\ [][NextFactory]_vars

----------------------------------------------------------------------------
(* fix_framework_compliance as a function of its argument *)

\* SQL texts: an optional leading blank, a first keyword, a table list, an optional
\* condition, and an ending
FixLead == {<<>>, <<Blank>>}
FixHead == {<<"SELECT">>, <<"select">>, <<"DELETE">>}
FixFrom == {<<"*", "FROM", "DEPOT", "a">>, <<"*", "FROM", "DEPOT">>,
            <<"*", "FROM", "FACTS", "f", "JOIN", "DEPOT", "d">>, <<"*", "FROM", "FACTS", "f">>,
            <<"*", "FROM", "DEPOT", "2023">>}
FixWhere == {<<>>, <<"WHERE", "x", "=", "2023">>, <<"WHERE", "a.ID_USER", "=", "?">>}
FixTail == {<<>>, <<"GROUP", "BY", "x">>, <<";">>, <<"#DEPOT_a#">>, <<Blank>>}

FixSamples ==
    {l \o h \o f \o w \o t : l \in FixLead, h \in FixHead, f \in FixFrom, w \in FixWhere, t \in FixTail}
    \cup {<<>>, <<Blank>>}

\* the variables of the other components, for the step of the correction
notFix == <<pipelineVars, httpVars, factoryVars, keyVars, sideVars>>

\* a caller applies fix_framework_compliance to its text
ApplyFix ==
    /\ fixOut = PendingFix
    /\ fixOut' = fix_framework_compliance(fixIn)
    /\ UNCHANGED <<fixIn, notFix>>

InitFix ==
    /\ PipelineParked
    /\ HttpParked
    /\ FactoryParked
    /\ KeyParked
    /\ SideParked
    /\ fixIn \in FixSamples
    /\ fixOut = PendingFix

NextFix == ApplyFix

SpecFix == InitFix /\ [][NextFix]_vars

----------------------------------------------------------------------------
(* The cache key as a function of the call: two calls of the cached method *)

\* seconds of the clock at which a call is made
Clock == {1, 2}

KeyQueries == { <<"Liste", "des", "CDI">>, <<"ab">> }

\* how the caller passes user_query: translate(q, ...) or translate(user_query=q, ...)
PassingStyles == {"positional", "keyword"}

\* one call: the positional arguments after self, the keyword arguments, the clock
KeyCall(style, q, v, st, uc, opt, now) ==
    [args |-> IF style = "positional" THEN <<q>> ELSE <<>>,
     kwargs |-> (IF style = "keyword" THEN "user_query" :> q ELSE <<>>)
                @@ ("validate" :> v) @@ ("store_result" :> st) @@ ("use_cache" :> uc)
                @@ (IF opt = "absent" THEN <<>> ELSE "options" :> opt),
     now |-> now]

KeyCallSamples ==
    { KeyCall(style, q, v, st, uc, opt, now) :
        style \in PassingStyles, q \in KeyQueries, v \in BOOLEAN, st \in BOOLEAN,
        uc \in BOOLEAN, opt \in {"absent", MixedKeys}, now \in Clock }

\* the values the method's parameters are bound to by a call, without the volatile flags
SignificantArguments(call) ==
    (IF call.args # <<>> THEN "user_query" :> call.args[1] ELSE <<>>)
    @@ filtered_kwargs(call.kwargs)

notKey == <<pipelineVars, httpVars, factoryVars, fixVars, sideVars>>

\* the wrapper derives the key of each of the two calls (line 50)
DeriveKeys ==
    /\ keys = <<>>
    /\ keys' = [i \in 1..2 |->
                  generate_service_cache_key(keyCalls[i].args, keyCalls[i].kwargs,
                                             keyCalls[i].now)]
    /\ UNCHANGED <<keyCalls, notKey>>

InitKey ==
    /\ PipelineParked
    /\ HttpParked
    /\ FactoryParked
    /\ FixParked
    /\ SideParked
    /\ keyCalls \in KeyCallSamples \X KeyCallSamples
    /\ keys = <<>>

NextKey == DeriveKeys

SpecKey == InitKey /\ [][NextKey]_vars

----------------------------------------------------------------------------
(* HTTPClient.post_json: two tasks call it on the shared client *)

\* the statuses a response is drawn from
Statuses == {200, 302, 401, 403, 404, 429, 503}

\* the shape of a response body: a JSON object, a text that is not JSON, a JSON value
\* that is no container (null, a number, true, false)
Bodies == {"object", "text", "scalar"}

\* what one session.post can meet: asyncio.TimeoutError, aiohttp.ClientError, any other
\* exception of the session, a response whose body cannot be read, a response
Outcomes ==
    { [kind |-> k, status |-> 0, body |-> "none"] :
        k \in {"timeout", "connection", "unexpected", "unreadable"} }
    \cup { [kind |-> "response", status |-> st, body |-> b] : st \in Statuses, b \in Bodies }

\* 500 <= response.status <= 599
ServerError(status) == 500 <= status /\ status <= 599

\* `"error" in error_data` on a parsed body that is no container raises TypeError, which
\* the `except json.JSONDecodeError` of lines 188 and 210 does not catch
ErrorLookupRaises(o) == o.body = "scalar"

\* the exception that leaves the body of the try for one outcome, "none" when the parsed
\* response is returned, "ServerError" for the 5xx branch of lines 182-202
Leaves(o) ==
    IF o.kind = "timeout" THEN "TimeoutError"
    ELSE IF o.kind = "connection" THEN "ClientError"
    ELSE IF o.kind = "unexpected" THEN "Exception"
    ELSE IF o.kind = "unreadable" THEN "LLMNetworkError"
    ELSE IF o.status \in {401, 403} THEN "LLMAuthError"
    ELSE IF o.status = 429 THEN "LLMQuotaError"
    ELSE IF ServerError(o.status)
        THEN (IF ErrorLookupRaises(o) THEN "Exception" ELSE "ServerError")
    ELSE IF o.status # 200
        THEN (IF ErrorLookupRaises(o) THEN "Exception" ELSE "LLMError")
    ELSE IF o.body = "text" THEN "LLMError"
    ELSE "none"

\* the status_code of the exception post_json raises
StatusOf(kind, o) ==
    IF kind = "LLMNetworkError" THEN 503
    ELSE IF kind = "LLMAuthError" THEN 401
    ELSE IF kind = "LLMQuotaError" THEN 429
    ELSE IF o.kind = "response" /\ o.status = 200 THEN 502
    ELSE o.status

\* attempt < self.max_retries - 1 and retry_on_failure
MayRetry(attempt, retries, retry_on_failure) == attempt < retries - 1 /\ retry_on_failure

\* wait_time = 2 ** attempt
wait_time(attempt) == 2 ^ attempt

Sleep(attempt) == [act |-> "sleep", kind |-> "none", status |-> 0, wait |-> wait_time(attempt)]
Raise(kind, status) == [act |-> "raise", kind |-> kind, status |-> status, wait |-> 0]

\* one iteration of the retry loop: return, raise, or sleep and continue
post_json_attempt(o, attempt, retries, retry_on_failure) ==
    IF Leaves(o) = "none" THEN [act |-> "return", kind |-> "none", status |-> 0, wait |-> 0]
    ELSE IF Leaves(o) \in {"TimeoutError", "ClientError", "ServerError"}
        THEN (IF MayRetry(attempt, retries, retry_on_failure) THEN Sleep(attempt)
              ELSE Raise("LLMNetworkError", 503))
    ELSE IF Leaves(o) = "Exception"
        THEN (IF MayRetry(attempt, retries, retry_on_failure) THEN Sleep(attempt)
              ELSE Raise("LLMError", 500))
    ELSE Raise(Leaves(o), StatusOf(Leaves(o), o))

\* _update_stats counting a failure in total_requests only (variant)
update_stats_without_failures(st, success) ==
    [total_requests |-> st.total_requests + 1,
     successful_requests |-> st.successful_requests + (IF success THEN 1 ELSE 0),
     failed_requests |-> st.failed_requests]

\* _update_stats
update_stats(st, success) ==
    [total_requests |-> st.total_requests + 1,
     successful_requests |-> st.successful_requests + (IF success THEN 1 ELSE 0),
     failed_requests |-> st.failed_requests + (IF success THEN 0 ELSE 1)]

notHttp == <<pipelineVars, factoryVars, fixVars, keyVars, sideVars>>

\* a task calls post_json(..., retry_on_failure=...) and enters the loop
PostJson(c) ==
    /\ http[c].pc = "idle"
    /\ \E r \in BOOLEAN :
          http' = [http EXCEPT ![c] = [@ EXCEPT !.pc = "sending", !.retry_on_failure = r]]
    /\ UNCHANGED <<stats, max_retries, notHttp>>

\* one pass of the loop body: session.post, the response, the except clauses
Attempt(c) ==
    /\ http[c].pc = "sending"
    /\ \E o \in Outcomes :
          LET step == post_json_attempt(o, http[c].attempt, max_retries,
                                        http[c].retry_on_failure) IN
          /\ http' = [http EXCEPT ![c] =
                        [@ EXCEPT !.sent = @ + 1,
                                  !.last = o,
                                  !.pc = IF step.act = "sleep" THEN "sleeping"
                                         ELSE IF step.act = "return" THEN "returned"
                                         ELSE "raised",
                                  !.waits = IF step.act = "sleep" THEN Append(@, step.wait)
                                            ELSE @,
                                  !.raised = step.kind,
                                  !.status_code = step.status]]
          /\ stats' = IF step.act = "sleep" THEN stats
                      ELSE update_stats(stats, step.act = "return")
    /\ UNCHANGED <<max_retries, notHttp>>

\* asyncio.sleep(wait_time) is over: continue with the next attempt
Wake(c) ==
    /\ http[c].pc = "sleeping"
    /\ http' = [http EXCEPT ![c] = [@ EXCEPT !.pc = "sending", !.attempt = @ + 1]]
    /\ UNCHANGED <<stats, max_retries, notHttp>>

\* the client is built with max_retries from 1 up to the default (the callers of the
\* constructor in the repository leave the default)
InitHttp ==
    /\ PipelineParked
    /\ FactoryParked
    /\ FixParked
    /\ KeyParked
    /\ SideParked
    /\ http = [c \in HttpCallers |-> IdleCall]
    /\ stats = ZeroStats
    /\ max_retries \in 1..DefaultMaxRetries

NextHttp == \E c \in HttpCallers : PostJson(c) \/ Attempt(c) \/ Wake(c)

SpecHttp == InitHttp /\ [][NextHttp]_vars

\* the task of the caller is cancelled while it waits in session.post, response.text or
\* asyncio.sleep: CancelledError is a BaseException, no except clause of post_json catches
\* it, and none of the calls of _update_stats runs
CancelCall(c) ==
    /\ http[c].pc \in {"sending", "sleeping"}
    /\ http' = [http EXCEPT ![c] = [@ EXCEPT !.pc = "raised", !.raised = "CancelledError"]]
    /\ UNCHANGED <<stats, max_retries, notHttp>>

NextHttpCancel == NextHttp \/ \E c \in HttpCallers : CancelCall(c)

\* post_json with cancellation of the calling tasks
SpecHttpCancel == InitHttp /\ [][NextHttpCancel]_vars

\* every attempt runs under aiohttp.ClientTimeout(total=attempt_timeout) and every
\* asyncio.sleep lasts wait_time seconds: a started attempt and a started sleep end
SpecHttpFair ==
    SpecHttp /\ \A c \in HttpCallers : WF_vars(Attempt(c)) /\ WF_vars(Wake(c))

----------------------------------------------------------------------------
(* The components that are modelled on one variable each *)

\* everything but the registry operations, the validators and the rate limiter is at rest
OthersParked == PipelineParked /\ HttpParked /\ FactoryParked /\ FixParked /\ KeyParked

notSide == <<pipelineVars, httpVars, factoryVars, fixVars, keyVars>>

----------------------------------------------------------------------------
(* The validators as functions of a candidate, and steps 7 to 10 of translate on it *)

\* candidates: the texts of SqlSamples and texts with comments, with the user filter on an
\* alias of another table, with a marker tag that is not at the end
ValSamples ==
    SqlSamples \cup
    { <<"SELECT", "*", "FROM", "FACTS", "f", "JOIN", "DEPOT", "d", "WHERE", "f.ID_USER", "=", "?", "#DEPOT_d#">>,
      <<"SELECT", "*", "FROM", "DEPOT", "a", "#DEPOT_a#", "WHERE", "a.ID_USER", "=", "?">>,
      <<"select", "*", "FROM", "depot", "a", "WHERE", "a.ID_USER", "=", "?", "#DEPOT_a#">>,
      <<"SELECT", "/*c*/", "*", "FROM", "DEPOT", "a", "WHERE", "a.ID_USER", "=", "?", "#DEPOT_a#">>,
      <<"SELECT", "/*", "x", "*/", "*", "FROM", "DEPOT", "a", "WHERE", "a.ID_USER", "=", "?", "#DEPOT_a#">>,
      <<"SELECT", "/*", Newline, "x", "*/", "*", "FROM", "DEPOT", "a", "WHERE", "a.ID_USER", "=", "?", "#DEPOT_a#">>,
      <<"SELECT", "/*", "x", "FROM", "DEPOT", "a", "WHERE", "a.ID_USER", "=", "?", "#DEPOT_a#">>,
      <<"SELECT", "*", "FROM", "DEPOT", "a", "WHERE", "a.ID_USER", "=", "?", "--", "x", "#DEPOT_a#">>,
      <<"SELECT", "*", "FROM", "DEPOT", "a", "WHERE", "a.ID_USER", "=", "?", "--", "#DEPOT_a#">>,
      <<"DELETE", "FROM", "DEPOT", "a", "WHERE", "a.ID_USER", "=", "?", "#DEPOT_a#">> }

\* where in translate the candidate comes from, and the validation in which a check raises
ValPlaces ==
    { <<"exact", "exact_validation">>, <<"exact", "validation">>, <<"generated", "validation">> }

ValQuery == <<"Liste", "des", "CDI">>

\* translate, step 7: the candidate is an exact match (7a) or a generated text (7b)
candidate_step(path, at, sql, check) ==
    IF path = "exact"
    THEN exact_match_result(
             init_translation_result(ValQuery),
             validate_complete_raising(sql, IF at = "exact_validation" THEN check ELSE "none",
                                       <<>>, FALSE, TRUE, Outcome("none", <<>>)))
    ELSE generate_new_sql_stage(init_translation_result(ValQuery),
                                [raise |-> "none", val |-> sql]).res

\* translate, step 8 (validate = True): `if validate and result["sql"]`
validation_step(r, at, check) ==
    IF Truthy(r.sql)
    THEN perform_complete_validation_stage(
             r, validate_complete_raising(r.sql.toks, IF at = "validation" THEN check ELSE "none",
                                          ValQuery, TRUE, TRUE, Outcome("none", <<"OUI">>)))
    ELSE r

\* the check raised in the validation it was planted in
check_raised(path, at, sql, check) ==
    IF at = "exact_validation" THEN check_reached(sql, check)
    ELSE /\ Truthy(candidate_step(path, at, sql, check).sql)
         /\ check_reached(candidate_step(path, at, sql, check).sql.toks, check)

PendingVal == [done |-> FALSE]

\* the validators are applied to the candidate, and translate runs from step 7 to its end
ValidateCandidate ==
    /\ val.out = PendingVal
    /\ val' = [val EXCEPT !.out =
                 [done |-> TRUE,
                  injection |-> check_sql_injection(val.sql),
                  suspicious |-> check_for_sql_injection(val.sql),
                  security |-> validate_security(val.sql),
                  framework |-> validate_framework(val.sql),
                  raised |-> check_raised(val.path, val.at, val.sql, val.check),
                  result |-> finalize_result(
                                 validation_step(
                                     candidate_step(val.path, val.at, val.sql, val.check),
                                     val.at, val.check))]]
    /\ UNCHANGED <<registry, rate, notSide>>

InitVal ==
    /\ OthersParked
    /\ registry = <<>>
    /\ rate = <<>>
    /\ val \in { [sql |-> sq, check |-> c, path |-> p[1], at |-> p[2], out |-> PendingVal] :
                    sq \in ValSamples, c \in InternalChecks \cup {"none"}, p \in ValPlaces }

NextVal == ValidateCandidate

SpecVal == InitVal /\ [][NextVal]_vars

----------------------------------------------------------------------------
(* rate_limit (app/dependencies.py): the requests of one client address *)

\* values of the parameter `limit` (60 by default in the source)
RateLimits == {1, 2}

\* the parameter `window`, in seconds (60 by default in the source)
RateWindow == 2

\* the requests of the client, the seconds that pass, the requests in progress at a time
MaxRateRequests == 5
MaxRateTime == 3
RateTasks == {1, 2}

\* no entry: redis.get gives None, the client address is not in rate_limit_store
NoCounter == [count |-> 0, until |-> 0]

\* redis.ttl: the seconds the key has left, -2 when there is no key
redis_ttl(key, now) == IF key = NoCounter THEN 0 - 2 ELSE key.until - now

\* in_memory_rate_limit, lines 124-140: the entry after the request is counted
counted_in_memory(store, now, window) ==
    IF store = NoCounter \/ now > store.until
    THEN [count |-> 1, until |-> now + window]
    ELSE [store EXCEPT !.count = @ + 1]

\* in_memory_rate_limit, lines 143-150: HTTPException 429 when the count exceeds the limit
in_memory_outcome(store, limit) == IF store.count > limit THEN "429" ELSE "pass"

RateIdle == [pc |-> "idle", count |-> 0, ttl |-> 0]

\* a request arrives: get_redis_client() gives the client or None; without Redis the whole
\* of in_memory_rate_limit runs (it has no suspension point)
RateStart(t) ==
    /\ rate.tasks[t].pc = "idle"
    /\ rate.started < MaxRateRequests
    /\ IF rate.backend = "redis"
       THEN rate' = [rate EXCEPT !.started = @ + 1, !.tasks[t].pc = "get"]
       ELSE rate' = [rate EXCEPT
                        !.started = @ + 1,
                        !.store = counted_in_memory(rate.store, rate.now, RateWindow),
                        !.log = Append(@, in_memory_outcome(
                                    counted_in_memory(rate.store, rate.now, RateWindow),
                                    rate.limit))]
    /\ UNCHANGED <<registry, val, notSide>>

\* count = await redis.get(redis_key)
RateGet(t) ==
    /\ rate.tasks[t].pc = "get"
    /\ rate' = [rate EXCEPT !.tasks[t].pc = "ttl", !.tasks[t].count = rate.key.count]
    /\ UNCHANGED <<registry, val, notSide>>

\* ttl = await redis.ttl(redis_key)
RateTtl(t) ==
    /\ rate.tasks[t].pc = "ttl"
    /\ rate' = [rate EXCEPT !.tasks[t].pc = "set",
                            !.tasks[t].ttl = redis_ttl(rate.key, rate.now)]
    /\ UNCHANGED <<registry, val, notSide>>

\* lines 75-94 with the count and the ttl read before: the first request sets the key to 1
\* and returns; the others write count + 1 with the ttl read (window when it is not
\* positive) and raise HTTPException 429 above the limit.  The raise stands inside the try
\* block, so `except Exception` (lines 96-99) catches it and calls in_memory_rate_limit.
RateSet(t) ==
    /\ rate.tasks[t].pc = "set"
    /\ IF rate.tasks[t].count = 0
       THEN rate' = [rate EXCEPT
                        !.tasks[t] = RateIdle,
                        !.key = [count |-> 1, until |-> rate.now + RateWindow],
                        !.log = Append(@, "pass")]
       ELSE IF rate.tasks[t].count + 1 > rate.limit
       THEN rate' = [rate EXCEPT
                        !.tasks[t] = RateIdle,
                        !.key = [count |-> rate.tasks[t].count + 1,
                                 until |-> rate.now + (IF rate.tasks[t].ttl > 0
                                                       THEN rate.tasks[t].ttl ELSE RateWindow)],
                        !.store = counted_in_memory(rate.store, rate.now, RateWindow),
                        !.log = Append(@, in_memory_outcome(
                                    counted_in_memory(rate.store, rate.now, RateWindow),
                                    rate.limit))]
       ELSE rate' = [rate EXCEPT
                        !.tasks[t] = RateIdle,
                        !.key = [count |-> rate.tasks[t].count + 1,
                                 until |-> rate.now + (IF rate.tasks[t].ttl > 0
                                                       THEN rate.tasks[t].ttl ELSE RateWindow)],
                        !.log = Append(@, "pass")]
    /\ UNCHANGED <<registry, val, notSide>>

\* a second passes; Redis drops a key whose time is over
RateTick ==
    /\ rate.now < MaxRateTime
    /\ rate' = [rate EXCEPT
                    !.now = @ + 1,
                    !.key = IF rate.key # NoCounter /\ rate.key.until <= rate.now + 1
                            THEN NoCounter ELSE @]
    /\ UNCHANGED <<registry, val, notSide>>

InitRate ==
    /\ OthersParked
    /\ registry = <<>>
    /\ val = <<>>
    /\ rate \in { [backend |-> b, limit |-> l, now |-> 0, started |-> 0,
                    key |-> NoCounter, store |-> NoCounter,
                    tasks |-> [t \in RateTasks |-> RateIdle], log |-> <<>>] :
                     b \in {"redis", "memory"}, l \in RateLimits }

NextRate ==
    \/ \E t \in RateTasks : RateStart(t) \/ RateGet(t) \/ RateTtl(t) \/ RateSet(t)
    \/ RateTick

SpecRate == InitRate /\ [][NextRate]_vars

----------------------------------------------------------------------------
(* LLMFactory (app/core/llm_factory.py): the operations built on generate_completion *)

\* the operations of the registry
RegistryOps ==
    {"generate_completion", "generate_sql", "validate_sql_semantically", "explain_sql",
     "check_relevance"}

\* what get_provider and the provider's generate_completion raise: the typed errors of
\* HTTPClient.post_json, LLMError for a bad model or response format, LLMConfigError
ClientErrors == {"LLMNetworkError", "LLMAuthError", "LLMQuotaError", "LLMError", "LLMConfigError"}

\* texts a provider returns
ClientTexts ==
    { <<"OUI">>, <<"non">>, <<"HORS_SUJET">>, <<"x">>,
      <<"FENCE_SQL", "SELECT", "x", "FENCE">>, <<"FENCE", "SELECT", "x">> }

\* the prompt manager: absent, rendering the prompt, or raising (the fallback prompt is used)
PromptManagers == {"absent", "renders", "raises"}

\* _clean_sql_response: an opening code fence (FENCE_SQL with the sql tag, FENCE without)
\* and a closing fence are removed
clean_sql_response(resp) ==
    IF resp # <<>> /\ resp[1] \in {"FENCE_SQL", "FENCE"}
    THEN (IF Len(resp) > 1 /\ resp[Len(resp)] = "FENCE"
          THEN SubSeq(resp, 2, Len(resp) - 1)
          ELSE SubSeq(resp, 2, Len(resp)))
    ELSE resp

\* word in response.upper(), for the responses of ClientTexts
InUpper(word, resp) ==
    \E i \in 1..Len(resp) :
        \/ word = "OUI" /\ resp[i] \in {"OUI", "oui"}
        \/ word = "NON" /\ resp[i] \in {"NON", "non"}
        \/ word = "HORS_SUJET" /\ resp[i] \in {"HORS_SUJET", "hors_sujet"}

Raised(kind) == [raise |-> kind, val |-> <<>>]
Gave(value) == [raise |-> "none", val |-> value]

\* LLMFactory.generate_completion: the provider's text; every exception is logged and re-raised
LLMFactory_generate_completion(client) ==
    IF client.err # "none" THEN Raised(client.err) ELSE Gave(client.resp)

\* LLMFactory.generate_sql: the cleaned text; every exception is logged and re-raised
LLMFactory_generate_sql(client) ==
    IF client.err # "none" THEN Raised(client.err) ELSE Gave(clean_sql_response(client.resp))

\* LLMFactory.validate_sql_semantically: (valid, message); every exception becomes
\* (False, "Impossible de valider la requete: ...")
LLMFactory_validate_sql_semantically(client) ==
    IF client.err # "none" THEN Gave(<<"False", "Impossible de valider la requete">>)
    ELSE IF InUpper("HORS_SUJET", client.resp) THEN Gave(<<"False", "hors sujet">>)
    ELSE IF InUpper("OUI", client.resp) THEN Gave(<<"True", "correspond">>)
    ELSE IF InUpper("NON", client.resp) THEN Gave(<<"False", "pourrait ne pas correspondre">>)
    ELSE Gave(<<"True", "semble correspondre">>)

\* LLMFactory.explain_sql: the text; every exception becomes a fixed sentence
LLMFactory_explain_sql(client) ==
    IF client.err # "none"
    THEN Gave(<<"Impossible d'obtenir une explication pour cette requete.">>)
    ELSE Gave(client.resp)

\* LLMFactory.check_relevance: "OUI" in response.upper(); True on every exception
LLMFactory_check_relevance(client) ==
    IF client.err # "none" THEN Gave(<<"True">>)
    ELSE Gave(IF InUpper("OUI", client.resp) THEN <<"True">> ELSE <<"False">>)

\* the operation `op` applied to what the provider client holds for its request
RegistryOperation(op, client) ==
    CASE op = "generate_completion" -> LLMFactory_generate_completion(client)
      [] op = "generate_sql" -> LLMFactory_generate_sql(client)
      [] op = "validate_sql_semantically" -> LLMFactory_validate_sql_semantically(client)
      [] op = "explain_sql" -> LLMFactory_explain_sql(client)
      [] op = "check_relevance" -> LLMFactory_check_relevance(client)

PendingCall == [raise |-> "pending", val |-> <<>>]

\* the caller's operation runs to its end
CallRegistry ==
    /\ registry.out = PendingCall
    /\ registry' = [registry EXCEPT !.out = RegistryOperation(registry.op, registry.client)]
    /\ UNCHANGED <<val, rate, notSide>>

InitRegistry ==
    /\ OthersParked
    /\ val = <<>>
    /\ rate = <<>>
    /\ registry \in
          { [op |-> op, prompt_manager |-> pm, client |-> c, out |-> PendingCall] :
              op \in RegistryOps, pm \in PromptManagers,
              c \in {Outcome(e, <<>>) : e \in ClientErrors}
                    \cup {Outcome("none", t) : t \in ClientTexts} }

NextRegistry == CallRegistry

SpecRegistry == InitRegistry /\ [][NextRegistry]_vars

----------------------------------------------------------------------------
(* Properties of translate *)

\* an operation of the current request's call log
Made(op) == \E i \in 1..Len(calls) : calls[i].op = op

\* the first keyword of a SQL text is in the destructive set
DestructiveFirst(s) == s # <<>> /\ Upper(s[1]) \in DestructiveLeading

\* the result in hand has been returned to the caller
Returned == pc = "returned"

\* C1: whatever the flags and the outcomes of the stages, a returned result with
\* status = success has a non-null sql and valid = true.
C1_SuccessHasSqlAndValid ==
    Returned /\ result.status = "success" => result.sql.some /\ result.valid = "True"

\* a success returned to a caller that asked for no validation
C1_Witness ==
    /\ Returned
    /\ result.status = "success"
    /\ ~req.validate
    /\ ~result.from_cache
    /\ result.valid = "True"

\* C2: a returned result with status = success has framework_compliant = true, and the
\* framework check passes on its SQL.
C2_SuccessIsCompliant ==
    Returned /\ result.status = "success" =>
        /\ result.framework_compliant
        /\ result.sql.some
        /\ validate_framework(result.sql.toks).compliant

\* a success whose SQL had to be corrected to comply
C2_Witness ==
    /\ Returned
    /\ result.status = "success"
    /\ result.framework_compliant
    /\ Truthy(exact)
    /\ result.sql.toks # exact.toks

\* C3: a SQL text whose first keyword is destructive, whether it is the exact-match
\* candidate or the generated text, ends in status = error whatever the flags.
C3_DestructiveIsError ==
    Returned /\ ~result.from_cache =>
        /\ Truthy(exact) /\ DestructiveFirst(exact.toks) => result.status = "error"
        /\ Made("generation") /\ result.sql.some /\ DestructiveFirst(result.sql.toks)
              => result.status = "error"

\* a destructive exact-match candidate, returned as an error to a caller that asked
\* for no validation
C3_Witness ==
    /\ Returned
    /\ Truthy(exact)
    /\ DestructiveFirst(exact.toks)
    /\ Len(exact.toks) > 1
    /\ ~req.validate
    /\ result.status = "error"

\* the candidate passes the framework check as it is or after one correction
CompliantAfterOneFix(s) ==
    \/ validate_framework(s).compliant
    \/ /\ fix_framework_compliance(s).raise = "none"
       /\ validate_framework(fix_framework_compliance(s).sql).compliant

C5_NoExceptionEscapes == pc # "raised" /\ escaped = "none"

\* a request returned as an error after the cache lookup and the embedding both failed
C5_Witness ==
    /\ Returned
    /\ Made("cache_get")
    /\ Made("embedding")
    /\ ~Made("vector_search")
    /\ result.status = "error"
    /\ result.validation_message = "Erreur du service de vectorisation"

\* C6: a returned result with status = error carries a non-empty validation_message.
C6_ErrorHasMessage ==
    Returned /\ result.status = "error" => result.validation_message \notin {None, ""}

\* an error returned because the schema could not be loaded
C6_Witness ==
    /\ Returned
    /\ result.status = "error"
    /\ Made("schema")
    /\ ~Made("embedding")
    /\ result.validation_message = "Fichier de schema introuvable"

\* the question of the current request contains a forbidden operation
AsksForbidden == OpsInQuery(req.user_query) # {}

\* the last entry of the call log is the relevance check and its provider request ended as `out`
RelevanceEnded(out) ==
    /\ calls # <<>>
    /\ calls[Len(calls)] = Call("relevance", TRUE)
    /\ lastOut \in out

\* C7, as stated: a question with a forbidden operation is returned as an error whose
\* message cites a forbidden operation of the question, and no network call (LLM, embedding,
\* vector search or cache) was made in the request.
C7_AsStated ==
    Returned /\ AsksForbidden =>
        /\ result.status = "error"
        /\ \E op \in OpsInQuery(req.user_query) : result.validation_message = ForbiddenMessage(op)
        /\ \A i \in 1..Len(calls) : ~calls[i].net

\* C7, amended: a question with a forbidden operation is returned as an error; the only
\* call that can precede the abort is the cache lookup of the wrapper, made when the cache
\* is enabled and use_cache is true, and only the finalization follows it; the message cites the first forbidden operation found
\* when the question passes the basic input checks and is the message of the failed basic
\* check otherwise.
C7_ForbiddenAbortsAfterCacheLookup ==
    Returned /\ AsksForbidden =>
        /\ result.status = "error"
        /\ ~result.from_cache
        /\ result.validation_message =
              IF validate_user_input(req.user_query).valid
              THEN ForbiddenMessage(FirstForbidden(req.user_query))
              ELSE validate_user_input(req.user_query).msg
        /\ calls = (IF cacheEnabled /\ req.use_cache THEN <<Call("cache_get", TRUE)>> ELSE <<>>)
                   \o <<Call("finalize", FALSE)>>

\* a forbidden question rejected with the message that cites the operation, after the
\* cache lookup
C7_Witness ==
    /\ Returned
    /\ AsksForbidden
    /\ Made("cache_get")
    /\ result.status = "error"
    /\ result.validation_message = ForbiddenMessage("delete")

\* C8: when the relevance check answers that the question is not relevant, translate goes
\* straight to its end with status = error and the domain message, and no embedding,
\* vector-search or generation call is made in the request.
C8_NotRelevantAborts ==
    /\ [][pc = "relevance" /\ lastOut' = "NON" =>
            /\ pc' = "finalize"
            /\ result'.status = "error"
            /\ result'.validation_message = RelevanceMessage]_vars
    /\ [](result.validation_message = RelevanceMessage =>
            /\ pc \in {"finalize", "wrapper_exit", "returned"}
            /\ result.status = "error"
            /\ ~result.from_cache
            /\ \A i \in 1..Len(calls) : calls[i].op \in {"cache_get", "relevance", "finalize"})

\* the relevance check has just answered NON
C8_Witness ==
    /\ RelevanceEnded({"NON"})
    /\ pc = "finalize"
    /\ result.status = "error"
    /\ result.validation_message = RelevanceMessage

\* C9: when the provider request of the relevance check fails with a network error, the
\* stage leaves the result untouched and the pipeline goes on to the schema load, as it
\* does for a relevant question.
C9_NetworkErrorProceeds ==
    [][pc = "relevance" /\ lastOut' = "ClientError" =>
          /\ pc' = "schema"
          /\ result' = result
          /\ result'.status = "processing"
          /\ calls' = Append(calls, Call("relevance", TRUE))
          /\ UNCHANGED <<req, schema, similar, exact, redis, cacheEnabled, cancelled, aux, escaped, nreq>>]_vars

\* the relevance request has just failed with a network error and the schema load is next
C9_Witness ==
    /\ RelevanceEnded({"ClientError"})
    /\ pc = "schema"
    /\ result.status = "processing"

\* C10, as stated: when the provider request of the relevance check fails with an
\* authentication or a quota error, translate aborts with status = error and starts no
\* later stage.
C10_AsStated ==
    RelevanceEnded({"RuntimeError401", "RuntimeError429"}) =>
        pc = "finalize" /\ result.status = "error"

\* number of entries of the call log for one operation
CountCalls(op) == Cardinality({i \in 1..Len(calls) : calls[i].op = op})

\* the messages of a failed embedding and of a failed vector search
RetrievalMessages == {"Erreur du service de vectorisation", "Erreur du service de recherche"}

\* C11: when the embedding or the vector search fails, translate goes straight to its end
\* with status = error; in that request the embedding and the vector search are each
\* invoked at most once and generation is never invoked.
C11_RetrievalFailureAborts ==
    /\ [][pc = "search" /\ lastOut' \in {"EmbeddingError", "VectorSearchError"} =>
            /\ pc' = "finalize"
            /\ result'.status = "error"
            /\ result'.validation_message \in RetrievalMessages]_vars
    /\ [](result.validation_message \in RetrievalMessages =>
            /\ pc \in {"finalize", "wrapper_exit", "returned"}
            /\ result.status = "error"
            /\ CountCalls("embedding") = 1
            /\ CountCalls("vector_search") <= 1
            /\ ~Made("store_embedding")
            /\ ~Made("generation"))
    /\ [](CountCalls("embedding") <= 1 /\ CountCalls("vector_search") <= 1)

\* an error returned after the vector search failed
C11_Witness ==
    /\ Returned
    /\ result.status = "error"
    /\ result.validation_message = "Erreur du service de recherche"
    /\ CountCalls("embedding") = 1
    /\ CountCalls("vector_search") = 1

\* the text passes the syntax and security checks and fails the framework check
NeedsFix(s) ==
    /\ validate_sql_syntax(s).valid
    /\ validate_security(s).safe
    /\ ~validate_framework(s).compliant

C13_AsStated ==
    Truthy(exact) =>
        \A i \in 1..Len(Years(result.query)) : \A j \in 1..Len(Years(exact.toks)) :
            Years(result.query)[i] = Years(exact.toks)[j]

\* the top hit of the search of this request scores above the exact-match threshold
TopHitAbove == similar # <<>> /\ similar[1].score > EXACT_MATCH_THRESHOLD

\* a syntactically sane, non-destructive SELECT on an aliased DEPOT table, with marker
\* tags and without the user filter
LacksOnlyUserFilter(s) ==
    /\ validate_sql_syntax(s).valid
    /\ ~check_destructive_operations(s)
    /\ is_select_query(s)
    /\ has_depot_table(s)
    /\ has_hashtags(s)
    /\ ~has_user_filter(s)

\* the first year of the question and the first year of the SQL text differ
FirstYearsDiffer(q, s) ==
    Years(q) # <<>> /\ Years(s) # <<>> /\ Years(q)[1] # Years(s)[1]

\* the outcome of an exact match corrected by the pipeline
ExactMatchSuccess ==
    /\ result.status = "success"
    /\ result.framework_compliant
    /\ result.is_exact_match

StepEnded(op, out) ==
    /\ calls # <<>>
    /\ calls[Len(calls)].op = op
    /\ lastOut \in out

\* the message _generate_new_sql gives for a sentinel
SentinelMessage(sentinel) ==
    IF sentinel = "IMPOSSIBLE"
    THEN "Cette demande ne semble pas concerner les ressources humaines ou est impossible a traduire en SQL avec le schema fourni."
    ELSE "Votre demande concerne une operation d'ecriture qui n'est pas autorisee. Cette API est en lecture seule."

\* C15, as stated: when the provider answers the generation with the IMPOSSIBLE or the
\* READONLY_VIOLATION sentinel, the stage ends with status = error, the message of that
\* sentinel and a null sql, reached by the normal branch and not by an exception.
C15_AsStated ==
    StepEnded("generation", {"IMPOSSIBLE", "READONLY_VIOLATION"}) =>
        /\ result.status = "error"
        /\ result.validation_message = SentinelMessage(lastOut)
        /\ ~result.sql.some

\* C16, as stated: when the provider answers the generation request with a 429, the stage
\* ends with status = error and the quota message, generation being invoked once.
C16_AsStated ==
    StepEnded("generation", {"RuntimeError429"}) =>
        /\ result.status = "error"
        /\ result.validation_message = "Service LLM temporairement indisponible"
        /\ CountCalls("generation") = 1

C18_AsStated ==
    /\ StepEnded("semantic", {"NON"}) /\ req.validate => result.status = "error"
    /\ Made("semantic") => req.validate
    /\ Returned /\ ~req.validate /\ result.sql.some => result.valid = "True"

\* the strings the explanation is set to when it cannot be produced
ExplanationPlaceholders ==
    {"Explication non disponible.",
     "Explication non disponible due a une erreur du service LLM.",
     "Impossible d'obtenir une explication pour cette requete."}

\* C19: the explanation stage changes no field of the result but explanation, whether it
\* succeeds or fails, and when it fails the explanation is one of the placeholder strings.
C19_ExplanationOnlySetsExplanation ==
    [][pc = "explain" =>
          /\ result' = [result EXCEPT !.explanation = result'.explanation]
          /\ pc' = "store"
          /\ escaped' = escaped
          /\ Made("explanation")' /\ (lastOut' \in ProviderErrors \/ ~calls'[Len(calls')].net)
                => result'.explanation \in ExplanationPlaceholders
          /\ ~Made("explanation")' => result'.explanation = result.explanation]_vars

\* the explanation has just failed and the result is still a success, with a placeholder
C19_Witness ==
    /\ StepEnded("explanation", ProviderErrors)
    /\ pc = "store"
    /\ result.status = "success"
    /\ result.sql.some
    /\ result.explanation \in ExplanationPlaceholders

----------------------------------------------------------------------------
(* Finalization *)

\* the entries of the call log that follow the finalization
AfterFinalize ==
    {calls[j].op : j \in {k \in 1..Len(calls) :
                              \E i \in 1..(k - 1) : calls[i].op = "finalize"}}

\* C21
\* On every way out of translate (the end of the stages, an early return after a failed
\* stage, an exception) the finally clause runs _finalize_result once, as the last step of
\* translate: control reaches the wrapper only from it, it sets processing_time and leaves
\* no status 'processing', and the returned result carries both.
C21_FinalizedOnEveryExit ==
    /\ [](pc \in {"wrapper_exit", "returned", "raised"}
            => /\ result.processing_time = "set"
               /\ result.status # "processing"
               /\ ~result.from_cache
                    => /\ CountCalls("finalize") = 1
                       /\ AfterFinalize \subseteq {"cache_set"})
    /\ [][/\ pc' \in {"wrapper_exit", "raised"} => pc = "finalize"
          /\ pc = "finalize" => /\ result' = finalize_result(result)
                                /\ pc' \in {"wrapper_exit", "raised"}]_vars

\* a request that ended in the except clause of translate was finalized once and returned
C21_Witness ==
    /\ Returned
    /\ ~result.from_cache
    /\ result.validation_message = "Erreur interne: TypeError"
    /\ result.processing_time = "set"
    /\ CountCalls("finalize") = 1

----------------------------------------------------------------------------
(* Cancellation *)

\* C22, as stated
\* Once the task of a request was cancelled with a network call in flight, no further stage
\* of that request starts and nothing of that request is written to the cache.
C22_AsStated ==
    /\ [](cancelled # 0 /\ cancelled = nreq
            => pc \in {"finalize", "wrapper_exit", "returned", "raised"})
    /\ [][cancelled # 0 /\ cancelled = nreq /\ nreq' = nreq
            => redis' = redis /\ ~(\E i \in 1..Len(calls') : calls'[i].op = "cache_set")]_vars

----------------------------------------------------------------------------
(* The provider registry *)

\* the task's call of get_provider for a registered name is over
Finished(c, n) == getter[c].name = n /\ getter[c].pc \in {"returned", "raised"}

\* C23, as stated
\* For a provider name, one provider object is constructed over the life of the registry,
\* and every caller of get_provider for that name receives it.
C23_AsStated ==
    \A n \in PROVIDER_CLASSES :
        /\ constructed[n].cached + constructed[n].probe <= 1
        /\ \A c \in FactoryCallers :
              Finished(c, n) => /\ constructed[n].cached + constructed[n].probe = 1
                                /\ getter[c].pc = "returned"
                                /\ getter[c].got = provider_instances[n]

\* C23, amended
\* Whatever the interleaving of the first requests for a registered name, get_provider
\* constructs at most one provider object for it; when the configuration of the provider
\* is valid it constructs exactly one, caches it and hands that one to every caller; when
\* it is not, it constructs none and every caller gets LLMConfigError.  The objects
\* get_configured_providers constructs are never handed out.
C23_OneCachedInstance ==
    \A n \in PROVIDER_CLASSES :
        /\ constructed[n].cached <= 1
        /\ \A c \in FactoryCallers :
              Finished(c, n) =>
                  IF configured[n]
                  THEN /\ getter[c].pc = "returned"
                       /\ constructed[n].cached = 1
                       /\ provider_instances[n] # 0
                       /\ getter[c].got = provider_instances[n]
                  ELSE /\ getter[c].pc = "raised"
                       /\ getter[c].raised = "LLMConfigError"
                       /\ constructed[n].cached = 0
                       /\ provider_instances[n] = 0

\* two tasks asked for the same provider before it existed: one constructed it, the other
\* found it at the second look, and both hold the cached instance, although
\* get_configured_providers built another object
C23_Witness ==
    \E c1, c2 \in FactoryCallers :
        /\ c1 # c2
        /\ getter[c1].pc = "returned" /\ getter[c2].pc = "returned"
        /\ getter[c1].name = "openai" /\ getter[c2].name = "openai"
        /\ ~getter[c1].second /\ getter[c2].second
        /\ getter[c1].got = getter[c2].got
        /\ constructed["openai"].probe = 1

----------------------------------------------------------------------------
(* The framework correction *)

\* fix_framework_compliance was applied to fixIn
Applied == fixOut # PendingFix

\* the text holds DEPOT followed by an alias
HasAliasedDepot(s) == TableMatches(s, "DEPOT") # {}

\* C24, as stated
\* For every text with an aliased DEPOT, the correction returns a text that
\* validate_framework finds compliant.
C24_AsStated ==
    Applied /\ HasAliasedDepot(fixIn)
        => fixOut.raise = "none" /\ validate_framework(fixOut.sql).compliant

\* C24, amended
\* For every text that starts with SELECT once stripped and holds an aliased DEPOT whose
\* first alias does not begin with a digit, the correction returns a text that
\* validate_framework finds compliant; for a text with an aliased DEPOT that does not
\* start with SELECT it raises FrameworkError.
C24_FixOfSelectIsCompliant ==
    Applied /\ HasAliasedDepot(fixIn)
        => IF is_select_query(strip(fixIn))
           THEN ~IsYear(FirstAlias(strip(fixIn), "DEPOT"))
                    => fixOut.raise = "none" /\ validate_framework(fixOut.sql).compliant
           ELSE fixOut.raise = "FrameworkError"

\* a SELECT on an aliased DEPOT without user filter and without hashtags was corrected
C24_Witness ==
    /\ Applied
    /\ HasAliasedDepot(fixIn)
    /\ is_select_query(strip(fixIn))
    /\ ~has_user_filter(fixIn) /\ ~has_hashtags(fixIn)
    /\ fixOut.raise = "none"
    /\ has_user_filter(fixOut.sql) /\ has_hashtags(fixOut.sql)
    /\ validate_framework(fixOut.sql).compliant

\* C25, as stated
\* For every text that validate_framework finds compliant, the correction returns the text
\* itself.
C25_AsStated ==
    Applied /\ validate_framework(fixIn).compliant
        => fixOut.raise = "none" /\ fixOut.sql = fixIn

\* C25, amended
\* For every text that validate_framework finds compliant, the correction returns the text
\* without the whitespace at its ends, and so the text itself when it has none there.
C25_FixOfCompliantIsStripped ==
    Applied /\ validate_framework(fixIn).compliant
        => /\ fixOut.raise = "none"
           /\ fixOut.sql = strip(fixIn)
           /\ fixIn = strip(fixIn) => fixOut.sql = fixIn

\* a compliant text with whitespace at an end came back without it
C25_Witness ==
    /\ Applied
    /\ validate_framework(fixIn).compliant
    /\ fixIn # strip(fixIn)
    /\ fixOut.raise = "none"
    /\ fixOut.sql = strip(fixIn)

\* C26 (as stated): two calls with the same significant arguments get the same key whatever
\* store_result, use_cache and the time of the calls, and two calls that differ in a
\* significant argument get different keys
C26_AsStated ==
    keys # <<>> =>
        /\ SignificantArguments(keyCalls[1]) = SignificantArguments(keyCalls[2])
               => keys[1] = keys[2]
        /\ SignificantArguments(keyCalls[1]) # SignificantArguments(keyCalls[2])
               => keys[1] # keys[2]

\* outcomes of reaching Redis under which a cache get or a cache set fails
CacheFailures == RedisOutcomes \ {"ok"}

\* C27: a cache get that fails leaves the request where a miss leaves it (translate starts on
\* a fresh result, the store untouched), a cache set that fails returns the pipeline's result
\* with its status and sql and leaves the store untouched, and no error of the cache
\* propagates to the caller
C27_CacheFailureIsAMiss ==
    /\ [](pc # "raised" => escaped = "none")
    /\ [](escaped # "CacheError")
    /\ [][ /\ (pc = "wrapper" /\ calls' # calls /\ lastOut' \in CacheFailures) =>
                /\ pc' = "input"
                /\ result' = init_translation_result(req.user_query)
                /\ redis' = redis
                /\ escaped' = "none"
           /\ (pc = "wrapper_exit" /\ calls' # calls /\ lastOut' \in CacheFailures) =>
                /\ pc' = "returned"
                /\ result' = [result EXCEPT !.from_cache = FALSE]
                /\ result'.status = result.status
                /\ result'.sql = result.sql
                /\ redis' = redis
                /\ escaped' = "none" ]_vars

\* a request whose get failed although the store held its entry, whose pipeline then ran to
\* success and whose set failed too
C27_Witness ==
    /\ pc = "returned"
    /\ Len(calls) > 2
    /\ calls[1].op = "cache_get"
    /\ calls[Len(calls)].op = "cache_set"
    /\ lastOut \in CacheFailures
    /\ Lookup(redis, generate_service_cache_key(<<>>, req, 0)) # <<>>
    /\ result.status = "success"
    /\ ~result.from_cache

\* a response with this status has been received by the task
Received(h, statuses) ==
    h.pc # "idle" /\ h.last.kind = "response" /\ h.last.status \in statuses

\* C28 (as stated): a 401, 403, 429 or other non-200 non-5xx response ends the call at once
\* (no sleep, no further request) with LLMAuthError for 401 and 403, LLMQuotaError for 429
\* and an LLMError that carries the response's status for the others
C28_AsStated ==
    \A c \in HttpCallers :
        /\ Received(http[c], {401, 403}) =>
              http[c].pc = "raised" /\ http[c].raised = "LLMAuthError"
        /\ Received(http[c], {429}) =>
              http[c].pc = "raised" /\ http[c].raised = "LLMQuotaError"
        /\ Received(http[c], {st \in Statuses : st # 200 /\ ~ServerError(st)} \ {401, 403, 429}) =>
              /\ http[c].pc = "raised"
              /\ http[c].raised = "LLMError"
              /\ http[c].status_code = http[c].last.status

\* a timeout, a connection error or a 5xx response
Transient(o) ==
    \/ o.kind \in {"timeout", "connection"}
    \/ o.kind = "response" /\ ServerError(o.status)

\* the number of requests a call may send
Allowed(h) == IF h.retry_on_failure THEN max_retries ELSE 1

\* C29 (as stated, without termination): a call that has ended has sent a request, a request
\* is re-sent only after a timeout, a connection error or a 5xx response, the waits are 1, 2, 4,
\* ... seconds, at most max_retries requests are sent, a returned call has met a 200 response,
\* and a call whose last allowed attempt failed transiently raises LLMNetworkError
C29_AsStated ==
    \A c \in HttpCallers :
        /\ http[c].pc \in {"returned", "raised"} => http[c].sent >= 1
        /\ (http[c].pc = "sleeping" \/ (http[c].pc = "sending" /\ http[c].attempt > 0))
              => Transient(http[c].last)
        /\ \A i \in 1..Len(http[c].waits) : http[c].waits[i] = 2 ^ (i - 1)
        /\ http[c].sent <= max_retries
        /\ http[c].pc = "returned" =>
              http[c].last.kind = "response" /\ http[c].last.status = 200
        /\ (http[c].pc = "raised" /\ Transient(http[c].last) /\ http[c].sent = Allowed(http[c]))
              => http[c].raised = "LLMNetworkError"

\* every call of post_json ends (a property of SpecHttpFair)
PostJsonTerminates ==
    \A c \in HttpCallers :
        (http[c].pc = "sending") ~> (http[c].pc \in {"returned", "raised"})

\* the entries validate_complete writes to the call log
InnerOps == {"syntax", "security", "framework", "auto_fix", "semantic"}

\* the index of the step that opened the validation pass entry i belongs to
PassOf(i) ==
    CHOOSE j \in 1..i :
        /\ calls[j].op \in {"exact_validation", "validation"}
        /\ \A k \in (j + 1)..i : calls[k].op \notin {"exact_validation", "validation"}

\* the place of a step of translate in the order of the stages
TopRank(op) ==
    CASE op = "cache_get" -> 0
      [] op = "relevance" -> 2
      [] op \in {"schema"} -> 3
      [] op \in {"embedding", "vector_search"} -> 4
      [] op \in {"exact_validation", "generation"} -> 5
      [] op = "validation" -> 6
      [] op = "explanation" -> 7
      [] op \in {"store_embedding", "store_query"} -> 8
      [] op = "finalize" -> 9
      [] op = "cache_set" -> 10

\* the stage log entry i belongs to: the checks run for an exact match are part of stage 7a
StageRank(i) ==
    IF calls[i].op \in InnerOps
    THEN (IF calls[PassOf(i)].op = "exact_validation" THEN 5 ELSE 6)
    ELSE TopRank(calls[i].op)

\* the order of the checks inside one validation pass as the claim gives it:
\* compliance (with auto-fix), security, semantic
ClaimedInnerRank(op) ==
    CASE op = "syntax" -> 0
      [] op = "framework" -> 1
      [] op = "auto_fix" -> 2
      [] op = "security" -> 3
      [] op = "semantic" -> 4

\* the order found in the log: syntax, security, compliance (with auto-fix), semantic
LoggedInnerRank(op) ==
    CASE op = "syntax" -> 0
      [] op = "security" -> 1
      [] op = "framework" -> 2
      [] op = "auto_fix" -> 3
      [] op = "semantic" -> 4

\* the log entries are in the order of the stages
StagesInOrder ==
    \A i \in 1..Len(calls) : \A j \in (i + 1)..Len(calls) : StageRank(i) <= StageRank(j)

\* the place of a control point in translate and its wrapper
PcRank(p) ==
    CASE p = "wrapper" -> 0
      [] p = "input" -> 1
      [] p = "relevance" -> 2
      [] p = "schema" -> 3
      [] p = "search" -> 4
      [] p = "exact" -> 5
      [] p \in {"handle_exact", "generate"} -> 6
      [] p = "validate" -> 7
      [] p = "explain" -> 8
      [] p = "store" -> 9
      [] p = "finalize" -> 10
      [] p = "wrapper_exit" -> 11
      [] p \in {"returned", "raised"} -> 12

C31_AsStated ==
    (registry.out # PendingCall
        /\ registry.client.err \in {"LLMNetworkError", "LLMAuthError", "LLMQuotaError"}) =>
        IF registry.op = "check_relevance"
        THEN registry.out = Gave(<<"True">>)
        ELSE registry.out = Raised(registry.client.err)

\* C33 (as stated): for every text without an aliased DEPOT the correction raises
\* FrameworkError
C33_AsStated ==
    (fixOut # PendingFix /\ ~has_depot_table(fixIn)) => fixOut.raise = "FrameworkError"

\* C33: for every non-empty text without an aliased DEPOT the correction raises
\* FrameworkError and returns nothing; for the empty text it raises ValidationError, the
\* base class of FrameworkError
C33_FixWithoutDepotRaises ==
    (fixOut # PendingFix /\ ~has_depot_table(fixIn)) =>
        fixOut.raise = (IF fixIn = <<>> THEN "ValidationError" ELSE "FrameworkError")

\* a text with a user filter and a marker tag but no aliased DEPOT was refused
C33_Witness ==
    /\ fixOut # PendingFix
    /\ ~has_depot_table(fixIn)
    /\ has_user_filter(fixIn)
    /\ has_hashtags(fixIn)
    /\ fixOut.raise = "FrameworkError"

DepotAliases(s) == {Upper(WordPrefix(s[i + 1])) : i \in TableMatches(s, "DEPOT")}

\* a predicate <alias>.ID_USER = ? whose alias is an alias of DEPOT
UserFilterOnDepotAlias(s) ==
    \E i \in 1..(Len(s) - 2) :
        /\ IsUserCol(s[i])
        /\ Upper(WordPrefix(s[i])) \in DepotAliases(s)
        /\ s[i + 1] = "="
        /\ s[i + 2] = "?"

\* a marker tag with nothing but marker tags, ";" and whitespace after it
HasTrailingTag(s) ==
    \E i \in Positions(s) :
        /\ IsTag(s[i])
        /\ \A j \in (i + 1)..Len(s) : IsTag(s[j]) \/ s[j] \in {";", Blank}

HasBlockComment(s) ==
    \/ \E i \in Positions(s) : s[i] = "/*c*/"
    \/ \E i \in Positions(s) : \E j \in Positions(s) : i < j /\ s[i] = "/*" /\ s[j] = "*/"

\* a "--" that is not followed by a marker tag
HasSuspiciousDashes(s) ==
    \E i \in Positions(s) : s[i] = "--" /\ (i = Len(s) \/ ~IsTag(s[i + 1]))

\* C35 (as stated): a block comment never makes the security check fail by itself, and a
\* suspicious "--" makes it fail
C35_AsStated ==
    val.out.done =>
        /\ (/\ HasBlockComment(val.sql)
            /\ ~check_sql_injection_without_block_comments(val.sql)
            /\ ~check_destructive_operations(val.sql)) => val.out.security.safe
        /\ HasSuspiciousDashes(val.sql) => ~val.out.security.safe

\* C35: a block comment opened and closed on one line makes the security check and the
\* check of SQLValidator fail; so does a "--" that is not followed by a marker tag; a "--"
\* followed by a marker tag fails the check of SQLValidator only; a block comment that
\* spans lines fails neither by itself
C35_CommentsAreFlagged ==
    val.out.done =>
        /\ HasBlockCommentOnOneLine(val.sql) =>
              val.out.injection /\ val.out.suspicious /\ ~val.out.security.safe
        /\ HasSuspiciousDashes(val.sql) =>
              val.out.injection /\ val.out.suspicious /\ ~val.out.security.safe
        /\ (\E i \in Positions(val.sql) : val.sql[i] = "--") => val.out.suspicious
        /\ (/\ ~HasBlockCommentOnOneLine(val.sql)
            /\ ~check_sql_injection_without_block_comments(val.sql)) =>
              /\ ~val.out.injection
              /\ val.out.suspicious <=> (\E i \in Positions(val.sql) : val.sql[i] = "--")
              /\ val.out.security.safe <=> ~check_destructive_operations(val.sql)

\* a text whose only suspicious element is a block comment on one line was flagged
C35_Witness ==
    /\ val.out.done
    /\ HasBlockCommentOnOneLine(val.sql)
    /\ ~check_sql_injection_without_block_comments(val.sql)
    /\ ~check_destructive_operations(val.sql)
    /\ val.out.injection
    /\ ~val.out.security.safe

\* C36 (as stated): of the requests of one client in one window (no second has passed),
\* exactly the first `limit` pass and every further one gets HTTP 429, with Redis or with
\* the in-memory store
C36_AsStated ==
    rate.now = 0 =>
        \A i \in 1..Len(rate.log) : (rate.log[i] = "pass") <=> (i <= rate.limit)

\* with the in-memory store alone the first `limit` requests of a window pass and the
\* others get HTTP 429
InMemoryLimitHolds ==
    (rate.backend = "memory" /\ rate.now = 0) =>
        \A i \in 1..Len(rate.log) : (rate.log[i] = "pass") <=> (i <= rate.limit)

\* C37: every entry of the result cache holds a result with status success, and every
\* result served with from_cache = true has status success
C37_OnlySuccessIsCached ==
    /\ \A e \in redis : e.value.status = "success"
    /\ result.from_cache => result.status = "success"

\* the second request was served from the cache, which holds the result of the first
C37_Witness ==
    /\ pc = "returned"
    /\ nreq = 2
    /\ result.from_cache
    /\ result.status = "success"
    /\ redis # {}

\* C38: within one request the generation is called only when the exact-match check gave
\* no candidate, never together with the exact-match validation, and a returned result
\* with is_exact_match = true means that no generation call was made in the request
C38_ExactMatchExcludesGeneration ==
    /\ Made("generation") => (~Truthy(exact) /\ ~Made("exact_validation"))
    /\ Made("exact_validation") => Truthy(exact)
    /\ (Returned /\ result.is_exact_match) => ~Made("generation")

\* a request returned an exact match; its candidate went through the exact-match validation
C38_Witness ==
    /\ Returned
    /\ result.is_exact_match
    /\ ~result.from_cache
    /\ Made("exact_validation")
    /\ ~Made("generation")

\* C39: within a request _store_result (get_embedding, then store_query) is called only
\* when store_result was requested and the result has a text that passed the security and
\* framework checks of this request, with valid = true and status = success
C39_StoreOnlyValidated ==
    (Made("store_embedding") \/ Made("store_query")) =>
        /\ req.store_result
        /\ Truthy(result.sql)
        /\ result.valid = "True"
        /\ result.status = "success"
        /\ Made("security")
        /\ Made("framework")
        /\ ~check_destructive_operations(result.sql.toks)
        /\ ~check_sql_injection(result.sql.toks)
        /\ validate_framework(result.sql.toks).compliant

\* store_query was called for the text of a returned result
C39_Witness ==
    /\ Returned
    /\ Made("store_query")
    /\ req.store_result
    /\ result.status = "success"

\* the calls of post_json that have returned, and those that have raised
ReturnedCalls == {c \in HttpCallers : http[c].pc = "returned"}
RaisedCalls == {c \in HttpCallers : http[c].pc = "raised"}

\* C40 (as stated): every call that has returned or raised has added exactly one to
\* total_requests, and total_requests = successful_requests + failed_requests
C40_AsStated ==
    /\ stats.total_requests = Cardinality(ReturnedCalls) + Cardinality(RaisedCalls)
    /\ stats.total_requests = stats.successful_requests + stats.failed_requests

\* C40: every call that has returned has added one to successful_requests, every call that
\* has raised an exception other than CancelledError has added one to failed_requests,
\* whatever the number of its attempts; a cancelled call has added nothing; and
\* total_requests = successful_requests + failed_requests
C40_OneCountPerFinishedCall ==
    /\ stats.successful_requests = Cardinality(ReturnedCalls)
    /\ stats.failed_requests =
          Cardinality({c \in RaisedCalls : http[c].raised # "CancelledError"})
    /\ stats.total_requests = stats.successful_requests + stats.failed_requests

\* both calls have finished, one of them after several attempts, and both are counted
C40_Witness ==
    /\ \A c \in HttpCallers : http[c].pc \in {"returned", "raised"}
    /\ \E c \in HttpCallers : http[c].sent >= 2
    /\ \E c \in HttpCallers : http[c].pc = "returned"
    /\ stats.total_requests = Cardinality(HttpCallers)

====
